---- MODULE Spec2Model ----
(***************************************************************************)
(* Model of the metadata generation workflow of the AI service             *)
(* (src/ai_service): the LangGraph state machine of workflow.py and the    *)
(* nodes it wires together (validators, loaders, prompt builder, LLM       *)
(* generator, formatters).                                                 *)
(*                                                                         *)
(* The workflow state is a Python dict: it is modelled as a function whose *)
(* DOMAIN is the set of keys present, so that state.get(key, default) and  *)
(* {**state, key: value} are modelled as the code computes them.           *)
(*                                                                         *)
(* Text is modelled by what the code looks at:                             *)
(*   - an input field or an objective is a record [lead, len, trail]: the  *)
(*     number of leading whitespace characters, the length of the core     *)
(*     (which starts and ends with a non-whitespace character, or is       *)
(*     empty) and the number of trailing whitespace characters;            *)
(*   - a module name, a curriculum code and an exception text is a string  *)
(*     atom; the keywords format_error searches for are given per atom;    *)
(*   - an error message is a record [id, idx, texts]: the message template *)
(*     of the source, the number and the texts interpolated into it.       *)
(***************************************************************************)
EXTENDS Integers, Sequences, FiniteSets, TLC

VARIABLES
    pc,         \* the node (or parallel step) that runs next, "END" or "raised"
    state,      \* the workflow state dict (WorkflowState)
    active,     \* loaders of the parallel step that have not run yet
    writes,     \* updates returned by the loaders that ran in the parallel step
    executed,   \* history: the nodes executed so far, in order
    failed,     \* history: the loaders whose load failed
    dbReads,    \* history: number of context-store reads
    llmCalls,   \* history: number of LLM client calls
    exception,  \* the exception that left the pipeline, "none" if none
    route,      \* history: route chosen after validate_output ("none" before)
    inputCheck, \* history: "failed" when validate_input recorded an error,
                \* "passed" when it recorded none, "pending" before it ran
    parsedIn,   \* history: llm_parsed_output as validate_output received it
    clientCalls,\* history: what each call of the LLM client returned or raised
    procs,      \* the requests the service handles (fill_work_plan invocations)
    env,        \* what is outside the service: context store, LLM API, pricing mock
    req,        \* per request: position, workflow state, client locals, response
    pricing,    \* the global PricingCache: cache, validity, lock, requests issued
    db          \* the context store: the rows of curriculum_references, and
                \* what the calls of the DatabaseClient fetched and returned

vars == <<pc, state, active, writes, executed, failed, dbReads, llmCalls,
          exception, route, inputCheck, parsedIn, clientCalls,
          procs, env, req, pricing, db>>

\* the variables of the workflow run on its own, and those of the service
wfVars == <<pc, state, active, writes, executed, failed, dbReads, llmCalls,
            exception, route, inputCheck, parsedIn, clientCalls>>
svcVars == <<procs, env, req, pricing>>

-----------------------------------------------------------------------------
(* Program constants (src/ai_service/constants.py)                         *)

MAX_ACTIVITY_LENGTH == 500
MAX_THEME_LENGTH == 200
MAX_MODULES == 3
MAX_CURRICULUM_REFS == 10
MAX_OBJECTIVES == 5
MIN_OBJECTIVE_LENGTH == 10

(* Bounds of the model                                                     *)

MaxPad == 1          \* whitespace characters around an input field
MaxListLen == 2      \* length of the freely enumerated lists of the LLM output

-----------------------------------------------------------------------------
(* Python dict and list helpers                                            *)

Get(d, k, default) == IF k \in DOMAIN d THEN d[k] ELSE default

\* {**d, **u}
Merge(d, u) ==
    [k \in (DOMAIN d) \cup (DOMAIN u) |-> IF k \in DOMAIN u THEN u[k] ELSE d[k]]

Range(s) == {s[i] : i \in 1..Len(s)}

RECURSIVE Repeat(_, _)
Repeat(x, n) == IF n = 0 THEN <<>> ELSE <<x>> \o Repeat(x, n - 1)

SeqsUpTo(S, n) == UNION {[1..k -> S] : k \in 0..n}

-----------------------------------------------------------------------------
(* Text                                                                    *)

Text(lead, len, trail) == [lead |-> lead, len |-> len, trail |-> trail]
EmptyText == Text(0, 0, 0)

\* str.strip(): the core without its surrounding whitespace
Strip(t) == Text(0, t.len, 0)

\* len(t)
TextLen(t) == t.lead + t.len + t.trail

Err(id, idx, texts) == [id |-> id, idx |-> idx, texts |-> texts]

-----------------------------------------------------------------------------
(* Keywords of format_error.  Each keyword names one test of the elif      *)
(* chain: "json" is ("JSON" in err or "json" in err.lower()), "modul" is   *)
(* the test for the Polish word for module, "podstawy" the test for         *)
(* "podstawy programowej", "cel" for "cel", "activity" for "activity" or   *)
(* its Polish word, "theme" for "theme" or "temat", "template" for         *)
(* "szablon" or "template", "llm" for "llm" or "api".                      *)

\* keywords contained in the fixed part of each message of the source
TemplateKw(id) ==
    CASE id \in {"activity_empty", "activity_too_long"} -> {"activity"}
      [] id = "theme_too_long" -> {"theme"}
      [] id \in {"modules_empty", "modules_too_many", "modules_invalid",
                 "load_modules_failed"} -> {"modul"}
      [] id \in {"refs_empty", "refs_all_invalid", "refs_too_many",
                 "load_refs_failed"} -> {"podstawy"}
      [] id \in {"objectives_empty", "objectives_too_many",
                 "objective_not_text", "objective_too_short"} -> {"cel"}
      [] id \in {"json_parse_error", "not_json"} -> {"json"}
      [] id = "llm_failed" -> {"llm"}
      [] id \in {"template_key", "template_missing",
                 "load_template_failed"} -> {"template"}
      [] OTHER -> {}

\* keywords contained in the texts the model interpolates into messages
AtomKw(a) ==
    CASE a = "MATEMATYKA" -> {"theme"}           \* maTEMATyka
      [] a = "Invalid JSON from structured output" -> {"json"}
      [] a = "ai_service/templates/fill_work_plan.txt" -> {"template"}
      [] OTHER -> {}

ErrKw(err) == TemplateKw(err.id) \cup UNION {AtomKw(a) : a \in Range(err.texts)}

AnyErr(errors, kw) == \E i \in 1..Len(errors) : kw \in ErrKw(errors[i])

-----------------------------------------------------------------------------
(* nodes/validators.py: validate_input                                     *)

\* mutant: the activity bound is exclusive
validate_input_errors_mut(activity, theme) ==
    (IF activity.len = 0 THEN <<Err("activity_empty", 0, <<>>)>>
     ELSE IF TextLen(activity) >= MAX_ACTIVITY_LENGTH
          THEN <<Err("activity_too_long", TextLen(activity), <<>>)>>
          ELSE <<>>)
    \o
    (IF theme.len # 0 /\ TextLen(theme) > MAX_THEME_LENGTH
     THEN <<Err("theme_too_long", TextLen(theme), <<>>)>>
     ELSE <<>>)

validate_input_errors(activity, theme) ==
    (IF activity.len = 0 THEN <<Err("activity_empty", 0, <<>>)>>
     ELSE IF TextLen(activity) > MAX_ACTIVITY_LENGTH
          THEN <<Err("activity_too_long", TextLen(activity), <<>>)>>
          ELSE <<>>)
    \o
    (IF theme.len # 0 /\ TextLen(theme) > MAX_THEME_LENGTH
     THEN <<Err("theme_too_long", TextLen(theme), <<>>)>>
     ELSE <<>>)

validate_input(s) ==
    LET activity == Strip(Get(s, "activity", EmptyText))
        theme == Strip(Get(s, "theme", EmptyText))
        errors == validate_input_errors(activity, theme)
    IN  Merge(s, [activity |-> activity,
                  theme |-> theme,
                  validation_errors |-> errors,
                  validation_passed |-> (Len(errors) = 0)])

-----------------------------------------------------------------------------
(* nodes/formatters.py: format_error                                       *)

\* mutant: the branch that looks for "theme" is missing
ErrorCode_mut(errors) ==
    IF AnyErr(errors, "json") THEN "PARSING_ERROR"
    ELSE IF AnyErr(errors, "modul") THEN "INVALID_MODULES"
    ELSE IF AnyErr(errors, "podstawy") THEN "INVALID_CURRICULUM_REFS"
    ELSE IF AnyErr(errors, "cel") THEN "INVALID_OBJECTIVES"
    ELSE IF AnyErr(errors, "activity") THEN "INVALID_INPUT"
    ELSE IF AnyErr(errors, "template") THEN "TEMPLATE_ERROR"
    ELSE IF AnyErr(errors, "llm") THEN "LLM_ERROR"
    ELSE "INTERNAL_ERROR"

ErrorCode(errors) ==
    IF AnyErr(errors, "json") THEN "PARSING_ERROR"
    ELSE IF AnyErr(errors, "modul") THEN "INVALID_MODULES"
    ELSE IF AnyErr(errors, "podstawy") THEN "INVALID_CURRICULUM_REFS"
    ELSE IF AnyErr(errors, "cel") THEN "INVALID_OBJECTIVES"
    ELSE IF AnyErr(errors, "activity") THEN "INVALID_INPUT"
    ELSE IF AnyErr(errors, "theme") THEN "INVALID_INPUT"
    ELSE IF AnyErr(errors, "template") THEN "TEMPLATE_ERROR"
    ELSE IF AnyErr(errors, "llm") THEN "LLM_ERROR"
    ELSE "INTERNAL_ERROR"

\* the errors of the list that hold one of the keywords, in order
ErrorsWith(errors, kws) == SelectSeq(errors, LAMBDA e : ErrKw(e) \cap kws # {})

\* the first of them, as a list of at most one error
FirstWith(errors, kws) ==
    IF ErrorsWith(errors, kws) = <<>> THEN <<>> ELSE <<Head(ErrorsWith(errors, kws))>>

\* error_message: the fixed text chosen with the code (named by the code and
\* the branch) and the errors the f-string quotes
ErrorMessage(code, errors) ==
    CASE code = "INVALID_MODULES" ->
             [text |-> "modules", quoted |-> FirstWith(errors, {"modul"})]
      [] code = "INVALID_OBJECTIVES" ->
             [text |-> "objectives", quoted |-> FirstWith(errors, {"cel"})]
      [] code = "INVALID_INPUT" /\ AnyErr(errors, "activity") ->
             [text |-> "input", quoted |-> FirstWith(errors, {"activity"})]
      [] code = "INVALID_INPUT" /\ ~AnyErr(errors, "activity") ->
             [text |-> "input", quoted |-> FirstWith(errors, {"theme"})]
      [] code = "INTERNAL_ERROR" ->
             [text |-> "internal",
              quoted |-> IF errors = <<>> THEN <<>> ELSE <<Head(errors)>>]
      [] OTHER -> [text |-> code, quoted |-> <<>>]

\* details=None
NoDetails == [k \in {} |-> <<>>]

ErrorResponse(code, errors) ==
    [kind |-> "Error",
     error |-> ErrorMessage(code, errors),
     error_code |-> code,
     details |-> IF errors # <<>> THEN [validation_errors |-> errors] ELSE NoDetails]

format_error(s) ==
    LET errors == Get(s, "validation_errors", <<>>)
    IN  Merge(s, [final_response |-> ErrorResponse(ErrorCode(errors), errors)])

-----------------------------------------------------------------------------
(* JSON values of the LLM output: a list of items, or a value that is not  *)
(* a list (a JSON string).  Module names and curriculum codes are string   *)
(* atoms; an objective is a Text, or NotText for an item that is no string *)

JList(items) == [type |-> "list", items |-> items]
\* a JSON string where a list is expected; its text is never looked at
JString == [type |-> "str", items |-> <<>>]
IsList(v) == v.type = "list"

NotText == [nonstr |-> TRUE]
IsText(o) == "len" \in DOMAIN o

EmptyDict == [k \in {} |-> JList(<<>>)]

required_fields == <<"modules", "curriculum_refs", "objectives">>

-----------------------------------------------------------------------------
(* nodes/validators.py: validate_output                                    *)

\* mutant: the loop over the required fields stops at the first missing one
MissingFieldErrors_mut(parsed) ==
    LET E(field) == IF field \notin DOMAIN parsed
                    THEN <<Err("missing_" \o field, 0, <<>>)>> ELSE <<>>
        all == E(required_fields[1]) \o E(required_fields[2]) \o E(required_fields[3])
    IN  IF all = <<>> THEN <<>> ELSE <<Head(all)>>

\* step 1: one error per missing required field, in the order of the list
MissingFieldErrors(parsed) ==
    LET E(field) == IF field \notin DOMAIN parsed
                    THEN <<Err("missing_" \o field, 0, <<>>)>> ELSE <<>>
    IN  E(required_fields[1]) \o E(required_fields[2]) \o E(required_fields[3])

\* mutant: the upper bound on the number of modules is off by one
ModulesErrors_mut(modules, valid_modules) ==
    IF ~IsList(modules) THEN <<Err("modules_not_list", 0, <<>>)>>
    ELSE IF Len(modules.items) = 0 THEN <<Err("modules_empty", 0, <<>>)>>
    ELSE IF Len(modules.items) > MAX_MODULES + 1
         THEN <<Err("modules_too_many", Len(modules.items), <<>>)>>
    ELSE LET invalid_modules ==
                 SelectSeq(modules.items, LAMBDA m : m \notin valid_modules)
         IN  IF invalid_modules # <<>>
             THEN <<Err("modules_invalid", 0, invalid_modules)>>
             ELSE <<>>

\* step 2: modules
ModulesErrors(modules, valid_modules) ==
    IF ~IsList(modules) THEN <<Err("modules_not_list", 0, <<>>)>>
    ELSE IF Len(modules.items) = 0 THEN <<Err("modules_empty", 0, <<>>)>>
    ELSE IF Len(modules.items) > MAX_MODULES
         THEN <<Err("modules_too_many", Len(modules.items), <<>>)>>
    ELSE LET invalid_modules ==
                 SelectSeq(modules.items, LAMBDA m : m \notin valid_modules)
         IN  IF invalid_modules # <<>>
             THEN <<Err("modules_invalid", 0, invalid_modules)>>
             ELSE <<>>

\* step 3: curriculum references, lenient mode
ValidRefs(refs, valid_codes) ==
    SelectSeq(refs, LAMBDA r : r \in valid_codes)

InvalidRefs(refs, valid_codes) ==
    SelectSeq(refs, LAMBDA r : r \notin valid_codes)

\* mutant: the maximum is checked on the unfiltered list
CurriculumErrors_mut(curriculum_refs, valid_codes) ==
    IF ~IsList(curriculum_refs) THEN <<Err("refs_not_list", 0, <<>>)>>
    ELSE IF Len(curriculum_refs.items) = 0 THEN <<Err("refs_empty", 0, <<>>)>>
    ELSE LET valid_refs == ValidRefs(curriculum_refs.items, valid_codes)
             invalid_refs == InvalidRefs(curriculum_refs.items, valid_codes)
         IN  IF Len(valid_refs) = 0
             THEN <<Err("refs_all_invalid", 0, invalid_refs)>>
             ELSE IF Len(curriculum_refs.items) > MAX_CURRICULUM_REFS
                  THEN <<Err("refs_too_many", Len(valid_refs), <<>>)>>
                  ELSE <<>>

CurriculumErrors(curriculum_refs, valid_codes) ==
    IF ~IsList(curriculum_refs) THEN <<Err("refs_not_list", 0, <<>>)>>
    ELSE IF Len(curriculum_refs.items) = 0 THEN <<Err("refs_empty", 0, <<>>)>>
    ELSE LET valid_refs == ValidRefs(curriculum_refs.items, valid_codes)
             invalid_refs == InvalidRefs(curriculum_refs.items, valid_codes)
         IN  IF Len(valid_refs) = 0
             THEN <<Err("refs_all_invalid", 0, invalid_refs)>>
             ELSE IF Len(valid_refs) > MAX_CURRICULUM_REFS
                  THEN <<Err("refs_too_many", Len(valid_refs), <<>>)>>
                  ELSE <<>>

\* mutant: the filtered list is never stored
FilteredRefs_mut(curriculum_refs, valid_codes) == curriculum_refs

\* the filtered list replaces the field when some codes were dropped and
\* some were kept
FilteredRefs(curriculum_refs, valid_codes) ==
    IF IsList(curriculum_refs) /\ Len(curriculum_refs.items) # 0
    THEN LET valid_refs == ValidRefs(curriculum_refs.items, valid_codes)
             invalid_refs == InvalidRefs(curriculum_refs.items, valid_codes)
         IN  IF invalid_refs # <<>> /\ valid_refs # <<>>
             THEN JList(valid_refs) ELSE curriculum_refs
    ELSE curriculum_refs

\* mutant: the minimum length is exclusive
RECURSIVE ObjectiveItemErrors_mut(_, _)
ObjectiveItemErrors_mut(objs, i) ==
    IF i > Len(objs) THEN <<>>
    ELSE (IF ~IsText(objs[i]) THEN <<Err("objective_not_text", i, <<>>)>>
          ELSE IF TextLen(Strip(objs[i])) <= MIN_OBJECTIVE_LENGTH
               THEN <<Err("objective_too_short", i, <<>>)>>
               ELSE <<>>)
         \o ObjectiveItemErrors_mut(objs, i + 1)

\* step 4: objectives, one error per violating item
RECURSIVE ObjectiveItemErrors(_, _)
ObjectiveItemErrors(objs, i) ==
    IF i > Len(objs) THEN <<>>
    ELSE (IF ~IsText(objs[i]) THEN <<Err("objective_not_text", i, <<>>)>>
          ELSE IF TextLen(Strip(objs[i])) < MIN_OBJECTIVE_LENGTH
               THEN <<Err("objective_too_short", i, <<>>)>>
               ELSE <<>>)
         \o ObjectiveItemErrors(objs, i + 1)

ObjectivesErrors(objectives) ==
    IF ~IsList(objectives) THEN <<Err("objectives_not_list", 0, <<>>)>>
    ELSE IF Len(objectives.items) = 0 THEN <<Err("objectives_empty", 0, <<>>)>>
    ELSE IF Len(objectives.items) > MAX_OBJECTIVES
         THEN <<Err("objectives_too_many", Len(objectives.items), <<>>)>>
    ELSE ObjectiveItemErrors(objectives.items, 1)

ValidModules(s) ==
    {m.module_name : m \in Range(Get(s, "available_modules", <<>>))}

ValidCodes(s) ==
    {r.reference_code : r \in Range(Get(s, "curriculum_refs", <<>>))}

\* mutant: the three checks form one chain that stops at the first violated
validate_output_mut(s) ==
    LET parsed_output == Get(s, "llm_parsed_output", EmptyDict)
        valid_modules == ValidModules(s)
        valid_curriculum_codes == ValidCodes(s)
        missing == MissingFieldErrors(parsed_output)
    IN  IF missing # <<>>
        THEN Merge(s, [validation_passed |-> FALSE,
                       validation_errors |-> missing])
        ELSE LET m == ModulesErrors(parsed_output["modules"], valid_modules)
                 c == CurriculumErrors(parsed_output["curriculum_refs"],
                                       valid_curriculum_codes)
                 o == ObjectivesErrors(parsed_output["objectives"])
                 errors == IF m # <<>> THEN m ELSE IF c # <<>> THEN c ELSE o
                 filtered ==
                     Merge(parsed_output,
                           [curriculum_refs |->
                               FilteredRefs(parsed_output["curriculum_refs"],
                                            valid_curriculum_codes)])
             IN  Merge(s, [llm_parsed_output |-> filtered,
                           validation_passed |-> (Len(errors) = 0),
                           validation_errors |-> errors])

validate_output(s) ==
    LET parsed_output == Get(s, "llm_parsed_output", EmptyDict)
        valid_modules == ValidModules(s)
        valid_curriculum_codes == ValidCodes(s)
        missing == MissingFieldErrors(parsed_output)
    IN  IF missing # <<>>
        THEN Merge(s, [validation_passed |-> FALSE,
                       validation_errors |-> missing])
        ELSE LET errors ==
                     ModulesErrors(parsed_output["modules"], valid_modules)
                     \o CurriculumErrors(parsed_output["curriculum_refs"],
                                         valid_curriculum_codes)
                     \o ObjectivesErrors(parsed_output["objectives"])
                 filtered ==
                     Merge(parsed_output,
                           [curriculum_refs |->
                               FilteredRefs(parsed_output["curriculum_refs"],
                                            valid_curriculum_codes)])
             IN  Merge(s, [llm_parsed_output |-> filtered,
                           validation_passed |-> (Len(errors) = 0),
                           validation_errors |-> errors])

-----------------------------------------------------------------------------
(* common/models.py: FillWorkPlanResponse, and nodes/formatters.py:        *)
(* format_success.  A node that raises returns Raise(exception).           *)

Raise(e) == [raise |-> e]
Raises(u) == "raise" \in DOMAIN u

\* fields of the pydantic model that are declared required (Field(...))
FillWorkPlanResponseFields == {"activity", "module", "curriculum_refs", "objectives"}

\* the pydantic constructor: keyword arguments that are no field of the model
\* are ignored, a missing required field or a violated constraint raises
FillWorkPlanResponse(kw) ==
    IF /\ FillWorkPlanResponseFields \subseteq DOMAIN kw
       /\ IsList(kw["curriculum_refs"])
       /\ Len(kw["curriculum_refs"].items) \in 1..10
       /\ IsList(kw["objectives"])
       /\ Len(kw["objectives"].items) \in 1..10
       /\ \A i \in 1..Len(kw["objectives"].items) : IsText(kw["objectives"].items[i])
    THEN [kind |-> "Success",
          activity |-> kw["activity"],
          module |-> kw["module"],
          curriculum_refs |-> kw["curriculum_refs"],
          objectives |-> kw["objectives"]]
    ELSE Raise("ValidationError")

format_success(s) ==
    LET parsed == Get(s, "llm_parsed_output", EmptyDict)
        activity == Get(s, "activity", EmptyText)
        response == FillWorkPlanResponse(
            [activity |-> activity,
             modules |-> Get(parsed, "modules", JList(<<>>)),
             curriculum_refs |-> Get(parsed, "curriculum_refs", JList(<<>>)),
             objectives |-> Get(parsed, "objectives", JList(<<>>))])
    IN  IF Raises(response) THEN response
        ELSE Merge(s, [final_response |-> response])

-----------------------------------------------------------------------------
(* Context store contents (fixed during a run) and nodes/loaders.py.       *)
(* Each loader returns only its update; `ok` is whether the store (or the  *)
(* template file) could be read.                                           *)

DbModules == <<[module_name |-> "JEZYK"], [module_name |-> "MATEMATYKA"]>>

DbCurriculumRefs ==
    <<[reference_code |-> "4.15", full_text |-> "t415", major_reference_id |-> 4],
      [reference_code |-> "4.18", full_text |-> "t418", major_reference_id |-> 4]>>

DbMajorRefs == <<[id |-> 4, reference_code |-> "4", full_text |-> "m4"]>>

DbExamples ==
    <<[theme |-> "Jesien", activity |-> "Zabawa", modules |-> <<"MATEMATYKA">>,
       objectives |-> <<"o1">>, curriculum_references |-> <<"4.15">>]>>

DbErrorText == "unable to open database file"

load_modules(s, ok) ==
    IF ok THEN [available_modules |-> DbModules]
    ELSE [validation_errors |-> <<Err("load_modules_failed", 0, <<DbErrorText>>)>>,
          available_modules |-> <<>>]

load_curriculum_refs(s, ok) ==
    IF ok THEN [curriculum_refs |-> DbCurriculumRefs,
                major_curriculum_refs |-> DbMajorRefs]
    ELSE [validation_errors |-> <<Err("load_refs_failed", 0, <<DbErrorText>>)>>,
          curriculum_refs |-> <<>>,
          major_curriculum_refs |-> <<>>]

load_examples(s, ok) ==
    IF ok THEN [example_entries |-> DbExamples]
    ELSE [validation_errors |-> <<Err("load_examples_failed", 0, <<DbErrorText>>)>>,
          example_entries |-> <<>>]

\* A template is the set of placeholders it references; positional is TRUE
\* when it holds a positional field ({} or {0}), for which str.format raises
\* IndexError.  The empty string is EmptyTemplate.
Template(placeholders, positional) ==
    [nonempty |-> TRUE, placeholders |-> placeholders, positional |-> positional]
EmptyTemplate == [nonempty |-> FALSE, placeholders |-> {}, positional |-> FALSE]

Supplied == {"activity", "theme", "modules_list", "curriculum_refs", "examples"}
GoodTemplate == Template(Supplied, FALSE)
BadTemplate == Template(Supplied \cup {"unknown"}, FALSE)
PositionalTemplate == Template(Supplied, TRUE)

TemplatePath == "ai_service/templates/fill_work_plan.txt"

\* file is "missing", "unreadable", or the template the file holds
FileStatuses == {"missing", "unreadable", "good", "bad", "positional"}

FileTemplate(file) ==
    CASE file = "good" -> GoodTemplate
      [] file = "bad" -> BadTemplate
      [] file = "positional" -> PositionalTemplate

load_prompt_template(s, file) ==
    IF Get(s, "prompt_template", EmptyTemplate).nonempty THEN s
    ELSE IF file = "missing"
         THEN [validation_errors |-> <<Err("template_missing", 0, <<TemplatePath>>)>>,
               validation_passed |-> FALSE,
               prompt_template |-> EmptyTemplate]
    ELSE IF file = "unreadable"
         THEN [validation_errors |->
                   <<Err("load_template_failed", 0, <<"Permission denied">>)>>,
               prompt_template |-> EmptyTemplate]
    ELSE [prompt_template |-> FileTemplate(file)]

-----------------------------------------------------------------------------
(* utils/formatters.py and nodes/prompt_builder.py                         *)

\* rank of a module name in sorted() order
NameRank(n) == CASE n = "JEZYK" -> 1 [] n = "MATEMATYKA" -> 2 [] OTHER -> 3

RECURSIVE InsertSorted(_, _)
InsertSorted(n, sorted) ==
    IF sorted = <<>> \/ NameRank(n) <= NameRank(Head(sorted)) THEN <<n>> \o sorted
    ELSE <<Head(sorted)>> \o InsertSorted(n, Tail(sorted))

RECURSIVE Sorted(_)
Sorted(names) ==
    IF names = <<>> THEN <<>> ELSE InsertSorted(Head(names), Sorted(Tail(names)))

format_modules_list(modules) ==
    Sorted([i \in 1..Len(modules) |-> modules[i].module_name])

\* mutant: a major section is emitted whether it has references or not
format_curriculum_refs_mut(major_refs, curriculum_refs) ==
    LET Group(id) == SelectSeq(curriculum_refs,
                               LAMBDA r : r.major_reference_id = id)
        RefLines(g) == [i \in 1..Len(g) |-> <<g[i].reference_code, g[i].full_text>>]
        RECURSIVE Lines(_)
        Lines(i) ==
            IF i > Len(major_refs) THEN <<>>
            ELSE <<<<major_refs[i].full_text>>>>
                 \o RefLines(Group(major_refs[i].id)) \o << <<>> >>
                 \o Lines(i + 1)
        all == Lines(1)
    IN  IF all = <<>> THEN <<>> ELSE SubSeq(all, 1, Len(all) - 1)

\* the lines of the curriculum block, without the trailing blank line: a
\* line is <<text>> for a major section, <<code, text>> for a reference and
\* <<>> for the blank line between sections
format_curriculum_refs(major_refs, curriculum_refs) ==
    LET Group(id) == SelectSeq(curriculum_refs,
                               LAMBDA r : r.major_reference_id = id)
        RefLines(g) == [i \in 1..Len(g) |-> <<g[i].reference_code, g[i].full_text>>]
        RECURSIVE Lines(_)
        Lines(i) ==
            IF i > Len(major_refs) THEN <<>>
            ELSE (IF Group(major_refs[i].id) # <<>>
                  THEN <<<<major_refs[i].full_text>>>>
                       \o RefLines(Group(major_refs[i].id)) \o << <<>> >>
                  ELSE <<>>)
                 \o Lines(i + 1)
        all == Lines(1)
    IN  IF all = <<>> THEN <<>> ELSE SubSeq(all, 1, Len(all) - 1)

format_examples(examples) ==
    [i \in 1..Len(examples) |->
        [number |-> i,
         theme |-> examples[i].theme,
         activity |-> examples[i].activity,
         modules |-> examples[i].modules,
         curriculum_refs |-> examples[i].curriculum_references,
         objectives |-> examples[i].objectives]]

EmptyPrompt == [nonempty |-> FALSE]

construct_prompt(s) ==
    LET template == Get(s, "prompt_template", EmptyTemplate)
        theme == Get(s, "theme", EmptyText)
        prompt ==
            [nonempty |-> template.nonempty,
             activity |-> Get(s, "activity", EmptyText),
             theme |-> [brak_tematu |-> (TextLen(theme) = 0), text |-> theme],
             modules_list |-> format_modules_list(Get(s, "available_modules", <<>>)),
             curriculum_refs |->
                 format_curriculum_refs(Get(s, "major_curriculum_refs", <<>>),
                                        Get(s, "curriculum_refs", <<>>)),
             examples |-> format_examples(Get(s, "example_entries", <<>>))]
        Failed(id, text) ==
            Merge(s, [constructed_prompt |-> EmptyPrompt,
                      validation_errors |->
                          Get(s, "validation_errors", <<>>) \o <<Err(id, 0, <<text>>)>>,
                      validation_passed |-> FALSE])
    IN  IF ~(template.placeholders \subseteq Supplied)
        THEN Failed("template_key", "'unknown'")
        ELSE IF template.positional
        THEN Failed("prompt_unexpected", "Replacement index 0 out of range")
        ELSE Merge(s, [constructed_prompt |-> prompt])

-----------------------------------------------------------------------------
(* nodes/llm_generator.py and nodes/validators.py: parse_llm_response      *)

\* What the LLM client does when called: it returns (raw_response, usage),
\* or it raises.  A raw response is JSON text ("json"), JSON text inside a
\* ```json fence ("fenced"), a fence around text that is no JSON
\* ("fenced_bad"), or text without JSON and without fence ("text").
Raw(kind, obj) == [kind |-> kind, obj |-> obj]
EmptyRaw == Raw("empty", EmptyDict)

\* utils/cost_tracker.py.  A price is an amount per token in units of
\* 10^-8 USD, so that 0.00000025 USD per token is 25.
calculate_cost(input_tokens, output_tokens, prompt_price, completion_price) ==
    (input_tokens * prompt_price) + (output_tokens * completion_price)

Price(prompt, completion) == [prompt |-> prompt, completion |-> completion]

\* PricingCache._get_fallback_pricing, and the fallback prices of the settings
FallbackPricing == Price(25, 125)
SettingsFallbackPricing == Price(25, 125)

UsageDict(input_tokens, output_tokens, price) ==
    [input_tokens |-> input_tokens,
     output_tokens |-> output_tokens,
     total_tokens |-> input_tokens + output_tokens,
     estimated_cost |-> calculate_cost(input_tokens, output_tokens,
                                       price.prompt, price.completion)]

\* the usage of the mocked client of the workflow tests
Usage == UsageDict(1400, 180, FallbackPricing)

ReturnedWith(raw, usage) ==
    [raised |-> FALSE, raw |-> raw, text |-> "", usage |-> usage]
Returned(raw) == ReturnedWith(raw, Usage)
Raised(text) == [raised |-> TRUE, raw |-> EmptyRaw, text |-> text, usage |-> Usage]

\* mutant: the call of the client is not inside try/except
generate_with_llm_mut(s, outcome) ==
    LET prompt == Get(s, "constructed_prompt", EmptyPrompt)
        Failed(err) ==
            Merge(s, [llm_raw_response |-> EmptyRaw,
                      validation_errors |->
                          Get(s, "validation_errors", <<>>) \o <<err>>,
                      validation_passed |-> FALSE])
    IN  IF ~prompt.nonempty THEN Failed(Err("no_prompt", 0, <<>>))
        ELSE IF outcome.raised
        THEN Raise(outcome.text)
        ELSE Merge(s, [llm_raw_response |-> outcome.raw,
                       input_tokens |-> outcome.usage.input_tokens,
                       output_tokens |-> outcome.usage.output_tokens,
                       estimated_cost |-> outcome.usage.estimated_cost])

generate_with_llm(s, outcome) ==
    LET prompt == Get(s, "constructed_prompt", EmptyPrompt)
        Failed(err) ==
            Merge(s, [llm_raw_response |-> EmptyRaw,
                      validation_errors |->
                          Get(s, "validation_errors", <<>>) \o <<err>>,
                      validation_passed |-> FALSE])
    IN  IF ~prompt.nonempty THEN Failed(Err("no_prompt", 0, <<>>))
        ELSE IF outcome.raised
        THEN Failed(Err("llm_failed", 0, <<outcome.text>>))
        ELSE Merge(s, [llm_raw_response |-> outcome.raw,
                       input_tokens |-> outcome.usage.input_tokens,
                       output_tokens |-> outcome.usage.output_tokens,
                       estimated_cost |-> outcome.usage.estimated_cost])

\* the LLM client is called only when the prompt is not empty
\* mutant: the test for an empty prompt is missing
CallsLLM_mut(s) == TRUE

CallsLLM(s) == Get(s, "constructed_prompt", EmptyPrompt).nonempty

parse_llm_response(s) ==
    LET raw_response == Get(s, "llm_raw_response", EmptyRaw)
        Failed(err) ==
            Merge(s, [llm_parsed_output |-> EmptyDict,
                      validation_passed |-> FALSE,
                      validation_errors |->
                          Get(s, "validation_errors", <<>>) \o <<err>>])
    IN  CASE raw_response.kind \in {"json", "fenced"} ->
                 Merge(s, [llm_parsed_output |-> raw_response.obj])
          \* json.loads of "[]": a list that holds no field
          [] raw_response.kind = "array" ->
                 Merge(s, [llm_parsed_output |-> <<>>])
          [] raw_response.kind = "fenced_bad" ->
                 Failed(Err("json_parse_error", 0, <<"Expecting value">>))
          [] OTHER ->
                 Failed(Err("not_json", 0, <<>>))

-----------------------------------------------------------------------------
(* workflow.py: routing                                                    *)

\* mutant: the graph before the shortcut existed, every input goes on to the loaders
should_continue_after_input_validation_mut(s) == "loaders"

should_continue_after_input_validation(s) ==
    IF Get(s, "validation_errors", <<>>) = <<>> THEN "loaders" ELSE "error"

\* mutant: the two routes swapped
should_continue_after_output_validation_mut(s) ==
    IF Get(s, "validation_passed", FALSE) THEN "error" ELSE "success"

should_continue_after_output_validation(s) ==
    IF Get(s, "validation_passed", FALSE) THEN "success" ELSE "error"

\* mutant: the route after validate_input leaves one loader out
Loaders_mut == {"load_modules", "load_curriculum_refs", "load_examples"}

Loaders == {"load_modules", "load_curriculum_refs", "load_examples", "load_template"}

-----------------------------------------------------------------------------
(* Inputs                                                                  *)

ActivityLens == {0, 1, MAX_ACTIVITY_LENGTH, MAX_ACTIVITY_LENGTH + 1}
ThemeLens == {0, MAX_THEME_LENGTH, MAX_THEME_LENGTH + 1}

Texts(lens) == {Text(l, n, t) : l \in 0..MaxPad, n \in lens, t \in 0..MaxPad}

\* initial_state of main.fill_work_plan (template cached at startup) and of
\* the tests (activity and theme only)
InitialStates ==
    {[activity |-> a, theme |-> t] : a \in Texts(ActivityLens), t \in Texts(ThemeLens)}
    \cup
    {[activity |-> a, theme |-> t, prompt_template |-> p] :
        a \in Texts(ActivityLens), t \in Texts(ThemeLens),
        p \in {GoodTemplate, BadTemplate}}

ModuleAtoms == {"MATEMATYKA", "JEZYK", "INVALID_MODULE"}
CodeAtoms == {"4.15", "4.18", "99.99", "bad"}
ObjectiveAtoms ==
    {Text(0, MIN_OBJECTIVE_LENGTH, 0), Text(0, MIN_OBJECTIVE_LENGTH - 1, 0),
     Text(1, MIN_OBJECTIVE_LENGTH - 1, 1), NotText}

GoodObjective == Text(0, MIN_OBJECTIVE_LENGTH, 0)

ModuleValues ==
    {JList(l) : l \in SeqsUpTo(ModuleAtoms, MaxListLen)}
    \cup {JList(Repeat("MATEMATYKA", n)) : n \in {MAX_MODULES, MAX_MODULES + 1}}
    \cup {JList(<<"JEZYK", "INVALID_MODULE", "MATEMATYKA">>),
          JList(<<"INVALID_MODULE", "JEZYK", "INVALID_MODULE", "MATEMATYKA">>),
          JString}

RefValues ==
    {JList(l) : l \in SeqsUpTo(CodeAtoms, MaxListLen)}
    \cup {JList(Repeat("4.15", n)) :
             n \in {MAX_CURRICULUM_REFS, MAX_CURRICULUM_REFS + 1}}
    \cup {JList(<<"4.15", "99.99", "4.18", "bad">>),
          JList(<<"bad">> \o Repeat("4.18", MAX_CURRICULUM_REFS)),
          JList(Repeat("4.18", MAX_CURRICULUM_REFS + 1) \o <<"99.99">>),
          JString}

ObjectiveValues ==
    {JList(l) : l \in SeqsUpTo(ObjectiveAtoms, MaxListLen)}
    \cup {JList(Repeat(GoodObjective, n)) : n \in {MAX_OBJECTIVES, MAX_OBJECTIVES + 1}}
    \cup {JList(Repeat(Text(0, MIN_OBJECTIVE_LENGTH - 1, 0), MAX_OBJECTIVES + 1)),
          JList(Repeat(Text(1, MIN_OBJECTIVE_LENGTH - 1, 0), MAX_OBJECTIVES)),
          JString}

ModuleSamples == {JList(<<"MATEMATYKA">>), JList(<<"INVALID_MODULE">>)}
RefSamples == {JList(<<"4.15", "4.18">>), JList(<<"99.99">>)}
ObjectiveSamples == {JList(<<GoodObjective, GoodObjective>>),
                     JList(<<Text(0, MIN_OBJECTIVE_LENGTH - 1, 0)>>)}

Obj(m, r, o) == [modules |-> m, curriculum_refs |-> r, objectives |-> o]

Restrict(d, K) == [k \in K |-> d[k]]

\* an object with all three fields, or with some of them missing
WithMissing(objects) ==
    {Restrict(o, K) : o \in objects, K \in SUBSET {"modules", "curriculum_refs", "objectives"}}

\* LLM outputs of the workflow runs
WfObjects ==
    WithMissing({Obj(JList(<<"MATEMATYKA">>), JList(<<"4.15", "4.18">>),
                     JList(<<GoodObjective, GoodObjective>>))})
    \cup {Obj(m, r, o) : m \in ModuleSamples, r \in RefSamples, o \in ObjectiveSamples}
    \cup {Obj(JList(<<"MATEMATYKA">>), JList(<<"4.15", "99.99", "4.18", "bad">>),
              JList(<<GoodObjective>>))}

LLMOutcomes ==
    {Raised("Request timed out."), Raised("Error code: 500"),
     Raised("Response content is None"), Raised("Connection error."),
     Raised("Invalid JSON from structured output")}
    \cup {Returned(Raw("text", EmptyDict)), Returned(Raw("fenced_bad", EmptyDict))}
    \cup {Returned(Raw(k, o)) : k \in {"json", "fenced"}, o \in WfObjects}

-----------------------------------------------------------------------------
(* The compiled graph (workflow.py: create_workflow).  A node runs, its    *)
(* update is written to the state and the edges choose the next node.  The *)
(* four loaders form one parallel step: each reads the state as it was     *)
(* when the step began, and the updates are written when the last loader   *)
(* has returned.  No field of WorkflowState declares a reducer, so a key   *)
(* that two nodes of the same step write is an InvalidUpdateError.         *)

\* the service variables when the workflow is run on its own
\* the DatabaseClient is not modelled: the loaders get what the store holds
NoDb == [rows |-> {}, fetched |-> <<>>, returned |-> <<>>, calls |-> 0]

SvcIdle ==
    /\ procs = {}
    /\ env = [failing |-> {}]
    /\ req = [p \in {} |-> EmptyDict]
    /\ pricing = [cache |-> <<>>, valid |-> FALSE, lock |-> 0, upstream |-> 0]

Init ==
    /\ pc = "validate_input"
    /\ state \in InitialStates
    /\ active = {}
    /\ writes = [n \in {} |-> EmptyDict]
    /\ executed = <<>>
    /\ failed = {}
    /\ dbReads = 0
    /\ llmCalls = 0
    /\ exception = "none"
    /\ route = "none"
    /\ inputCheck = "pending"
    /\ parsedIn = EmptyDict
    /\ clientCalls = <<>>
    /\ SvcIdle
    /\ db = NoDb

ValidateInput ==
    /\ pc = "validate_input"
    /\ state' = validate_input(state)
    /\ executed' = Append(executed, "validate_input")
    /\ IF should_continue_after_input_validation(state') = "loaders"
       THEN pc' = "loaders" /\ active' = Loaders
       ELSE pc' = "format_error" /\ active' = {}
    /\ inputCheck' = IF state'["validation_errors"] # <<>> THEN "failed" ELSE "passed"
    /\ UNCHANGED <<writes, failed, dbReads, llmCalls, exception, route, parsedIn,
                   clientCalls, svcVars, db>>

Conflict(w) ==
    \E m, n \in DOMAIN w : m # n /\ (DOMAIN w[m]) \cap (DOMAIN w[n]) # {}

\* the keys of the updates are disjoint when this is used
RECURSIVE MergeAll(_, _)
MergeAll(s, w) ==
    IF DOMAIN w = {} THEN s
    ELSE LET n == CHOOSE n \in DOMAIN w : TRUE
         IN  MergeAll(Merge(s, w[n]), Restrict(w, DOMAIN w \ {n}))

\* loader `node` returns `update`; the last loader to return ends the step
FinishLoader(node, update, ok, reads) ==
    LET w == Merge(writes, [n \in {node} |-> update])
    IN  /\ pc = "loaders"
        /\ node \in active
        /\ active' = active \ {node}
        /\ executed' = Append(executed, node)
        /\ failed' = IF ok THEN failed ELSE failed \cup {node}
        /\ dbReads' = dbReads + reads
        /\ IF active' # {}
           THEN writes' = w /\ UNCHANGED <<pc, state, exception>>
           ELSE /\ writes' = [n \in {} |-> EmptyDict]
                /\ IF Conflict(w)
                   THEN /\ pc' = "raised"
                        /\ exception' = "InvalidUpdateError"
                        /\ UNCHANGED state
                   ELSE /\ pc' = "construct_prompt"
                        /\ state' = MergeAll(state, w)
                        /\ UNCHANGED exception
        /\ UNCHANGED <<llmCalls, route, inputCheck, parsedIn, clientCalls, svcVars, db>>

LoadModules ==
    \E ok \in BOOLEAN :
        FinishLoader("load_modules", load_modules(state, ok), ok, 1)

LoadCurriculumRefs ==
    \E ok \in BOOLEAN :
        FinishLoader("load_curriculum_refs", load_curriculum_refs(state, ok), ok, 1)

LoadExamples ==
    \E ok \in BOOLEAN :
        FinishLoader("load_examples", load_examples(state, ok), ok, 1)

LoadTemplate ==
    \E file \in FileStatuses :
        LET cached == Get(state, "prompt_template", EmptyTemplate).nonempty
        IN  FinishLoader("load_template", load_prompt_template(state, file),
                         cached \/ file \notin {"missing", "unreadable"}, 0)

\* a node that is alone in its step
RunNode(node, update, next) ==
    /\ pc = node
    /\ executed' = Append(executed, node)
    /\ IF Raises(update)
       THEN pc' = "raised" /\ exception' = update.raise /\ UNCHANGED state
       ELSE pc' = next /\ state' = update /\ UNCHANGED exception
    /\ UNCHANGED <<active, writes, failed, dbReads, inputCheck, svcVars, db>>

ConstructPrompt ==
    /\ RunNode("construct_prompt", construct_prompt(state), "generate_llm")
    /\ UNCHANGED <<llmCalls, route, parsedIn, clientCalls>>

GenerateLLM ==
    \E outcome \in LLMOutcomes :
        /\ RunNode("generate_llm", generate_with_llm(state, outcome), "parse_response")
        /\ llmCalls' = llmCalls + (IF CallsLLM(state) THEN 1 ELSE 0)
        /\ clientCalls' = IF CallsLLM(state) THEN Append(clientCalls, outcome)
                                             ELSE clientCalls
        /\ UNCHANGED <<route, parsedIn>>

ParseResponse ==
    /\ RunNode("parse_response", parse_llm_response(state), "validate_output")
    /\ UNCHANGED <<llmCalls, route, parsedIn, clientCalls>>

\* mutant: the lenient filter is applied to the modules as well
ValidateOutput_mut ==
    LET result == validate_output(state)
        parsed == Get(result, "llm_parsed_output", EmptyDict)
        update ==
            IF "modules" \in DOMAIN parsed /\ IsList(parsed["modules"])
            THEN Merge(result,
                       [llm_parsed_output |->
                           Merge(parsed,
                                 [modules |->
                                     JList(SelectSeq(parsed["modules"].items,
                                             LAMBDA m : m \in ValidModules(state)))])])
            ELSE result
        next == should_continue_after_output_validation(update)
    IN  /\ RunNode("validate_output", update,
                   IF next = "success" THEN "format_success" ELSE "format_error")
        /\ route' = next
        /\ parsedIn' = Get(state, "llm_parsed_output", EmptyDict)
        /\ UNCHANGED <<llmCalls, clientCalls>>

ValidateOutput ==
    LET update == validate_output(state)
        next == should_continue_after_output_validation(update)
    IN  /\ RunNode("validate_output", update,
                   IF next = "success" THEN "format_success" ELSE "format_error")
        /\ route' = next
        /\ parsedIn' = Get(state, "llm_parsed_output", EmptyDict)
        /\ UNCHANGED <<llmCalls, clientCalls>>

FormatSuccess ==
    /\ RunNode("format_success", format_success(state), "END")
    /\ UNCHANGED <<llmCalls, route, parsedIn, clientCalls>>

FormatError ==
    /\ RunNode("format_error", format_error(state), "END")
    /\ UNCHANGED <<llmCalls, route, parsedIn, clientCalls>>

Next ==
    \/ ValidateInput
    \/ LoadModules
    \/ LoadCurriculumRefs
    \/ LoadExamples
    \/ LoadTemplate
    \/ ConstructPrompt
    \/ GenerateLLM
    \/ ParseResponse
    \/ ValidateOutput
    \/ FormatSuccess
    \/ FormatError

Spec == Init /\ [][Next]_vars

\* ainvoke drives the graph: a run whose next step can be taken takes it
SpecLive == Spec /\ WF_vars(Next)

-----------------------------------------------------------------------------
(* validate_output called on a state of its own, as the validator tests    *)
(* do, followed by the formatter the graph routes to.  One field of the    *)
(* parsed output ranges over all its values while the other two range over *)
(* a valid and an invalid sample.                                          *)

ParsedOutputs ==
    {Obj(m, r, o) : m \in ModuleValues, r \in RefSamples, o \in ObjectiveSamples}
    \cup {Obj(m, r, o) : m \in ModuleSamples, r \in RefValues, o \in ObjectiveSamples}
    \cup {Obj(m, r, o) : m \in ModuleSamples, r \in RefSamples, o \in ObjectiveValues}
    \cup WfObjects
    \* fields missing from an object each field of which violates its check
    \cup WithMissing({Obj(JList(<<"INVALID_MODULE">>), JList(<<"4.15", "99.99">>),
                          JList(<<Text(0, MIN_OBJECTIVE_LENGTH - 1, 0)>>))})

OutputStates ==
    {[llm_parsed_output |-> o, available_modules |-> am, curriculum_refs |-> cr] :
        o \in ParsedOutputs, am \in {DbModules, <<>>}, cr \in {DbCurriculumRefs, <<>>}}

InitOutput ==
    /\ pc = "validate_output"
    /\ state \in OutputStates
    /\ active = {}
    /\ writes = [n \in {} |-> EmptyDict]
    /\ executed = <<>>
    /\ failed = {}
    /\ dbReads = 0
    /\ llmCalls = 0
    /\ exception = "none"
    /\ route = "none"
    /\ inputCheck = "pending"
    /\ parsedIn = EmptyDict
    /\ clientCalls = <<>>
    /\ SvcIdle
    /\ db = NoDb

NextOutput == ValidateOutput \/ FormatSuccess \/ FormatError

SpecOutput == InitOutput /\ [][NextOutput]_vars

-----------------------------------------------------------------------------
(* nodes/llm_client.py: OpenRouterClient.generate, in the steps between    *)
(* which it awaits: the chat completion request, the extraction of the     *)
(* content, and the pricing lookup of utils/cost_tracker.py.               *)

Tokens(input, output) == [input |-> input, output |-> output]
\* response.usage is None
NoTokens == Tokens(0, 0)

\* what chat.completions.create does: it raises, or it returns a response
\* with a content and a usage
ApiRaises(text) ==
    [raises |-> TRUE, text |-> text, content |-> EmptyRaw, tokens |-> NoTokens]
ApiResponse(content, tokens) ==
    [raises |-> FALSE, text |-> "", content |-> content, tokens |-> tokens]

\* message.reasoning of the response; generate reads it for the log only
ApiReasoned(content, tokens) ==
    [raises |-> FALSE, text |-> "", content |-> content, tokens |-> tokens,
     reasoning |-> "present"]

\* a content that opens with a <think> block and ends with the JSON object
\* obj; draft is the flat JSON object written inside the block (EmptyDict
\* when the block holds none)
Think(obj, draft) == [kind |-> "think", obj |-> obj, draft |-> draft]

\* the regular expression matches a flat object that holds the three names
Matches(obj) == Range(required_fields) \subseteq DOMAIN obj

\* the content of the response: None raises ValueError; text json.loads
\* accepts is kept, be it an object ("json") or another JSON value
\* ("array"); otherwise re.search takes the first flat JSON object with the
\* three fields found in the text; anything else raises ValueError
ExtractContent(content) ==
    CASE content.kind = "none" -> Raised("Response content is None")
      [] content.kind \in {"json", "array"} -> Returned(content)
      [] content.kind = "fenced" /\ Range(required_fields) \subseteq DOMAIN content.obj ->
             Returned(Raw("json", content.obj))
      [] content.kind = "think" /\ Matches(content.draft) ->
             Returned(Raw("json", content.draft))
      [] content.kind = "think" /\ ~Matches(content.draft) /\ Matches(content.obj) ->
             Returned(Raw("json", content.obj))
      [] OTHER -> Raised("Invalid JSON from structured output")

\* what the call of fetch_pricing gave to generate
Lookup(price) == [raised |-> FALSE, price |-> price]
LookupRaised == [raised |-> TRUE, price |-> FallbackPricing]

\* mutant: the cost calculation is not inside try/except
generate_return_mut(content, tokens, lookup) ==
    IF lookup.raised
    THEN Raised("Pricing failed")
    ELSE ReturnedWith(content, UsageDict(tokens.input, tokens.output, lookup.price))

\* settings.ai_service_fallback_prompt_price and _completion_price: what the
\* environment of the service sets, or else the defaults of config.py
ConfiguredFallbackPricing == Get(env, "fallback_price", SettingsFallbackPricing)

\* the end of generate: the cost from the price fetch_pricing gave, or from
\* the fallback prices of the settings when the lookup raised
generate_return(content, tokens, lookup) ==
    IF lookup.raised
    THEN ReturnedWith(content, UsageDict(tokens.input, tokens.output,
                                         ConfiguredFallbackPricing))
    ELSE ReturnedWith(content, UsageDict(tokens.input, tokens.output, lookup.price))

\* prices the upstream listing may hold for the model
UpstreamPrices == {Price(80, 400), Price(100, 500)}

\* what GET /api/v1/models gives: a listing with the price of the model, a
\* listing without the model, or an error
HttpResults == {"found", "notfound", "error"}

\* PricingCache: _cache holds at most the price of the one model in use;
\* valid is _is_cache_valid(); lock is the request that holds _lock (0 when
\* free); upstream counts the requests sent to the pricing endpoint
PricingCache(cache, valid) ==
    [cache |-> cache, valid |-> valid, lock |-> 0, upstream |-> 0]

\* mutant: fetch_pricing does not wait for the lock
LockFree_mut(c) == TRUE

\* async with self._lock: the lock can be taken when no caller holds it
LockFree(c) == c.lock = 0

\* _is_cache_valid() and model in self._cache
CacheHit(c) == c.valid /\ c.cache # <<>>

\* fetch_pricing after the request to the pricing endpoint has returned:
\* the price to use and the cache afterwards
fetch_pricing_result(c, result, price) ==
    IF result = "found"
    THEN [price |-> price,
          cache |-> [c EXCEPT !.cache = <<price>>, !.valid = TRUE, !.lock = 0]]
    ELSE [price |-> FallbackPricing, cache |-> [c EXCEPT !.lock = 0]]

-----------------------------------------------------------------------------
(* main.py: fill_work_plan.  Every request builds a state of its own and   *)
(* runs the compiled graph on it; the requests of one process share the    *)
(* PricingCache only.  The loaders of a request form one step of the graph *)
(* (their updates are merged when all four have returned), taken here as a *)
(* whole.                                                                  *)

TwoInstances == {1, 2}

NoResponse == [kind |-> "none"]

\* the except branch of fill_work_plan: details={"error": str(e)}
EndpointError(text) ==
    [kind |-> "Error",
     error |-> [text |-> "endpoint", quoted |-> <<>>],
     error_code |-> "INTERNAL_ERROR",
     details |-> [error |-> text]]

\* mutant: the response also reports the estimated cost of the run
fill_work_plan_response_mut(final_state, exc) ==
    [kind |-> "Costed",
     cost |-> Get(final_state, "estimated_cost", 0),
     exception |-> exc,
     final |-> Get(final_state, "final_response", NoResponse)]

\* what fill_work_plan returns for a run that ended with final_state, or
\* with an exception
fill_work_plan_response(final_state, exc) ==
    IF exc # "none" THEN EndpointError(exc)
    ELSE IF "final_response" \notin DOMAIN final_state
         THEN EndpointError("Workflow did not produce a final response")
         ELSE final_state["final_response"]

\* initial_state of fill_work_plan, with the template cached at startup
initial_state(request) ==
    [activity |-> request.activity,
     theme |-> request.theme,
     prompt_template |-> GoodTemplate]

\* a request that passed FillWorkPlanRequest: activity and theme are
\* stripped, the activity is not empty
Requests ==
    {[activity |-> Text(0, n, 0), theme |-> Text(0, 0, 0)] :
        n \in {1, MAX_ACTIVITY_LENGTH}}

NewRequest(request) ==
    [pc |-> "validate_input",
     request |-> request,
     state |-> initial_state(request),
     exception |-> "none",
     response |-> NoResponse,
     content |-> EmptyRaw,
     tokens |-> NoTokens,
     lookup |-> "none"]

GoodObject ==
    Obj(JList(<<"MATEMATYKA">>), JList(<<"4.15", "99.99">>), JList(<<GoodObjective>>))
BadObject ==
    Obj(JList(<<"INVALID_MODULE">>), JList(<<"4.15">>), JList(<<GoodObjective>>))

\* the API is deterministic: its outcome is a function of the request
ApiOutcomes ==
    {ApiRaises("Request timed out."),
     ApiResponse(Raw("none", EmptyDict), NoTokens),
     ApiResponse(Raw("text", EmptyDict), Tokens(1400, 180)),
     ApiResponse(Raw("fenced", GoodObject), NoTokens),
     ApiResponse(Raw("json", GoodObject), Tokens(1400, 180)),
     ApiResponse(Raw("json", BadObject), Tokens(1400, 180))}

\* failing: the loaders whose read of the context store fails; pricing_mock:
\* fetch_pricing is replaced by a mock that raises (test_llm_client)
Envs ==
    [failing : {{}, {"load_modules"}},
     api : [Requests -> ApiOutcomes],
     pricing_mock : BOOLEAN]

\* the update each loader returns in the environment e
LoaderUpdates(s, e) ==
    [n \in Loaders |->
        CASE n = "load_modules" -> load_modules(s, n \notin e.failing)
          [] n = "load_curriculum_refs" -> load_curriculum_refs(s, n \notin e.failing)
          [] n = "load_examples" -> load_examples(s, n \notin e.failing)
          [] n = "load_template" -> load_prompt_template(s, "good")]

\* the step of the four loaders
load_context(s, e) ==
    IF Conflict(LoaderUpdates(s, e)) THEN Raise("InvalidUpdateError")
    ELSE MergeAll(s, LoaderUpdates(s, e))

\* mutant: the workflow state is one object shared by the requests
Put_mut(r, p, new) ==
    [q \in DOMAIN r |-> IF q = p THEN new ELSE [r[q] EXCEPT !.state = new.state]]

\* the state of a request is private to it
Put(r, p, new) == [r EXCEPT ![p] = new]

\* a node of the graph returned update to the request r
StepOf(r, update, next) ==
    IF Raises(update)
    THEN [r EXCEPT !.pc = "raised", !.exception = update.raise]
    ELSE [r EXCEPT !.pc = next, !.state = update]

Stepped(p, update, next) == Put(req, p, StepOf(req[p], update, next))

\* OpenRouterClient.generate returns (raw, usage) or raises, and
\* generate_with_llm returns its update
GeneratedOf(r, outcome) ==
    StepOf(r, generate_with_llm(r.state, outcome), "parse_response")

Generated(p, outcome) == Put(req, p, GeneratedOf(req[p], outcome))

SvcValidateInput(p) ==
    /\ req[p].pc = "validate_input"
    /\ LET update == validate_input(req[p].state)
       IN  req' = Stepped(p, update,
                          IF should_continue_after_input_validation(update) = "loaders"
                          THEN "loaders" ELSE "format_error")
    /\ UNCHANGED <<wfVars, db, procs, env, pricing>>

SvcLoadContext(p) ==
    /\ req[p].pc = "loaders"
    /\ req' = Stepped(p, load_context(req[p].state, env), "construct_prompt")
    /\ UNCHANGED <<wfVars, db, procs, env, pricing>>

SvcConstructPrompt(p) ==
    /\ req[p].pc = "construct_prompt"
    /\ req' = Stepped(p, construct_prompt(req[p].state), "generate_llm")
    /\ UNCHANGED <<wfVars, db, procs, env, pricing>>

\* generate_with_llm up to the request sent to the API
SvcCallApi(p) ==
    /\ req[p].pc = "generate_llm"
    /\ IF CallsLLM(req[p].state)
       THEN req' = Put(req, p, [req[p] EXCEPT !.pc = "api_call"])
       ELSE req' = Generated(p, Raised("not called"))
    /\ UNCHANGED <<wfVars, db, procs, env, pricing>>

\* the API answers: generate raises, or it goes on to the pricing lookup
SvcApiReturns(p) ==
    /\ req[p].pc = "api_call"
    /\ LET api == env.api[req[p].request]
           extracted == ExtractContent(api.content)
       IN  IF api.raises THEN req' = Generated(p, Raised(api.text))
           ELSE IF extracted.raised THEN req' = Generated(p, extracted)
           ELSE req' = Put(req, p, [req[p] EXCEPT !.pc = "fetch_pricing",
                                                 !.content = extracted.raw,
                                                 !.tokens = api.tokens])
    /\ UNCHANGED <<wfVars, db, procs, env, pricing>>

\* generate after fetch_pricing returned or raised (how: "cached", "found",
\* "notfound", "error" or "raised")
Priced(p, lookup, how) ==
    Put(req, p, GeneratedOf([req[p] EXCEPT !.lookup = how],
                            generate_return(req[p].content, req[p].tokens, lookup)))

\* fetch_pricing: the lock is taken; a valid cache answers at once, otherwise
\* a request is sent to the pricing endpoint with the lock held.  When
\* fetch_pricing is mocked to raise, generate uses the prices of the settings.
SvcFetchPricing(p) ==
    /\ req[p].pc = "fetch_pricing"
    /\ IF env.pricing_mock
       THEN req' = Priced(p, LookupRaised, "raised") /\ UNCHANGED pricing
       ELSE /\ LockFree(pricing)
            /\ IF CacheHit(pricing)
               THEN req' = Priced(p, Lookup(pricing.cache[1]), "cached")
                    /\ UNCHANGED pricing
               ELSE /\ req' = Put(req, p, [req[p] EXCEPT !.pc = "pricing_http"])
                    /\ pricing' = [pricing EXCEPT !.lock = p,
                                                  !.upstream = pricing.upstream + 1]
    /\ UNCHANGED <<wfVars, db, procs, env>>

\* the pricing endpoint answers; the lock is released
SvcPricingReturns(p) ==
    /\ req[p].pc = "pricing_http"
    /\ \E result \in HttpResults, price \in UpstreamPrices :
          LET r == fetch_pricing_result(pricing, result, price)
          IN  /\ req' = Priced(p, Lookup(r.price), result)
              /\ pricing' = r.cache
    /\ UNCHANGED <<wfVars, db, procs, env>>

\* the time to live of the cache passes
SvcExpire ==
    /\ pricing.valid
    /\ pricing' = [pricing EXCEPT !.valid = FALSE]
    /\ UNCHANGED <<wfVars, db, procs, env, req>>

SvcParseResponse(p) ==
    /\ req[p].pc = "parse_response"
    /\ req' = Stepped(p, parse_llm_response(req[p].state), "validate_output")
    /\ UNCHANGED <<wfVars, db, procs, env, pricing>>

SvcValidateOutput(p) ==
    /\ req[p].pc = "validate_output"
    /\ LET update == validate_output(req[p].state)
       IN  req' = Stepped(p, update,
                          IF should_continue_after_output_validation(update) = "success"
                          THEN "format_success" ELSE "format_error")
    /\ UNCHANGED <<wfVars, db, procs, env, pricing>>

SvcFormatSuccess(p) ==
    /\ req[p].pc = "format_success"
    /\ req' = Stepped(p, format_success(req[p].state), "END")
    /\ UNCHANGED <<wfVars, db, procs, env, pricing>>

SvcFormatError(p) ==
    /\ req[p].pc = "format_error"
    /\ req' = Stepped(p, format_error(req[p].state), "END")
    /\ UNCHANGED <<wfVars, db, procs, env, pricing>>

\* fill_work_plan returns
SvcRespond(p) ==
    /\ req[p].pc \in {"END", "raised"}
    /\ req' = Put(req, p,
                  [req[p] EXCEPT !.pc = "done",
                                 !.response = fill_work_plan_response(
                                                  req[p].state, req[p].exception)])
    /\ UNCHANGED <<wfVars, db, procs, env, pricing>>

\* the workflow variables when the service is modelled
WfIdle ==
    /\ pc = "service"
    /\ state = EmptyDict
    /\ active = {}
    /\ writes = [n \in {} |-> EmptyDict]
    /\ executed = <<>>
    /\ failed = {}
    /\ dbReads = 0
    /\ llmCalls = 0
    /\ exception = "none"
    /\ route = "none"
    /\ inputCheck = "pending"
    /\ parsedIn = EmptyDict
    /\ clientCalls = <<>>

InitialPricing ==
    {PricingCache(<<>>, FALSE)}
    \cup {PricingCache(<<price>>, valid) : price \in UpstreamPrices, valid \in BOOLEAN}

InitService ==
    /\ WfIdle
    /\ procs = TwoInstances
    /\ env \in Envs
    /\ req \in [TwoInstances -> {NewRequest(r) : r \in Requests}]
    /\ pricing \in InitialPricing
    /\ db = NoDb

NextService ==
    \/ \E p \in procs :
          \/ SvcValidateInput(p)
          \/ SvcLoadContext(p)
          \/ SvcConstructPrompt(p)
          \/ SvcCallApi(p)
          \/ SvcApiReturns(p)
          \/ SvcFetchPricing(p)
          \/ SvcPricingReturns(p)
          \/ SvcParseResponse(p)
          \/ SvcValidateOutput(p)
          \/ SvcFormatSuccess(p)
          \/ SvcFormatError(p)
          \/ SvcRespond(p)
    \/ SvcExpire

SpecService == InitService /\ [][NextService]_vars

-----------------------------------------------------------------------------
(* utils/cost_tracker.py: callers of fetch_pricing that reach it together, *)
(* for the same model, when the cache is empty or expired.                 *)

NumCallers == 2

\* an environment in which every request reaches the pricing lookup
PricingEnv ==
    [failing |-> {},
     api |-> [r \in Requests |-> ApiResponse(Raw("json", GoodObject), Tokens(1400, 180))],
     pricing_mock |-> FALSE]

\* the state of a request when generate_with_llm is entered
PromptState(request, e) ==
    construct_prompt(load_context(validate_input(initial_state(request)), e))

\* a request inside generate, about to call fetch_pricing
Caller(request, e) ==
    [pc |-> "fetch_pricing",
     request |-> request,
     state |-> PromptState(request, e),
     exception |-> "none",
     response |-> NoResponse,
     content |-> ExtractContent(e.api[request].content).raw,
     tokens |-> e.api[request].tokens,
     lookup |-> "none"]

\* the cache is empty, or holds a price whose time to live has passed
EmptyOrExpired ==
    {PricingCache(<<>>, FALSE)}
    \cup {PricingCache(<<price>>, FALSE) : price \in UpstreamPrices}

InitPricing ==
    /\ WfIdle
    /\ procs = 1..NumCallers
    /\ env = PricingEnv
    /\ req \in [1..NumCallers -> {Caller(r, PricingEnv) : r \in Requests}]
    /\ pricing \in EmptyOrExpired
    /\ db = NoDb

NextPricing ==
    \/ \E p \in procs :
          \/ SvcFetchPricing(p)
          \/ SvcPricingReturns(p)
    \/ SvcExpire

SpecPricing == InitPricing /\ [][NextPricing]_vars

-----------------------------------------------------------------------------
(* db_client.py: DatabaseClient.get_curriculum_references on a table of    *)
(* curriculum_references.  reference_code is a CharField: a code is the    *)
(* text "<major>.<minor>", kept here as the pair of numbers it is written  *)
(* from, and compared as SQLite compares TEXT (byte by byte).              *)

MaxRows == 3

\* the decimal digits of n, as character codes
Digits(n) == IF n < 10 THEN <<48 + n>> ELSE <<48 + (n \div 10), 48 + (n % 10)>>

\* the characters of the code: digits, ".", digits
CodeText(code) == Digits(code[1]) \o <<46>> \o Digits(code[2])

\* a < b in the BINARY collation: at the first position where they differ a
\* has the smaller character, or a is a proper prefix of b
TextLess(a, b) ==
    \E i \in 1..Len(b) :
        /\ \A j \in 1..(i - 1) : j <= Len(a) /\ a[j] = b[j]
        /\ (i > Len(a) \/ a[i] < b[i])

\* ORDER BY reference_code over the rows (reference_code is unique)
OrderByReferenceCode(rows) ==
    [i \in 1..Cardinality(rows) |->
        CHOOSE r \in rows :
            Cardinality({q \in rows : TextLess(CodeText(q), CodeText(r))}) = i - 1]

\* the fields CurriculumReference requires, and those the client passes
CurriculumReferenceFields ==
    {"id", "reference_code", "full_text", "major_reference_id", "created_at"}
PassedFields == {"reference_code", "full_text", "major_reference_id"}

\* get_curriculum_references: one CurriculumReference per fetched row
get_curriculum_references(fetched) ==
    IF fetched # <<>> /\ ~(CurriculumReferenceFields \subseteq PassedFields)
    THEN Raise("ValidationError")
    ELSE [i \in 1..Len(fetched) |-> [reference_code |-> fetched[i]]]

Codes == {<<major, minor>> : major \in {2, 10}, minor \in {1, 2, 9, 10}}

Tables == {rows \in SUBSET Codes : Cardinality(rows) <= MaxRows}

InitDb ==
    /\ WfIdle
    /\ SvcIdle
    /\ db \in {[rows |-> rows, fetched |-> <<>>, returned |-> <<>>, calls |-> 0] :
                  rows \in Tables}

GetCurriculumReferences ==
    /\ db.calls = 0
    /\ LET fetched == OrderByReferenceCode(db.rows)
       IN  db' = [db EXCEPT !.fetched = fetched,
                            !.returned = get_curriculum_references(fetched),
                            !.calls = 1]
    /\ UNCHANGED <<wfVars, svcVars>>

NextDb == GetCurriculumReferences

SpecDb == InitDb /\ [][NextDb]_vars

-----------------------------------------------------------------------------
(* construct_prompt called on a state of its own, with the curriculum       *)
(* block formatted from the major sections and the references the state     *)
(* holds.  A major section has a unique id and a reference a unique code    *)
(* (the primary key and the unique column of the store); the link of a      *)
(* reference may name a section that was not loaded.                        *)

MaxRefs == 3

MajorRef(id) == [id |-> id, reference_code |-> id, full_text |-> <<"major", id>>]

CurriculumRef(major, minor, link) ==
    [reference_code |-> <<major, minor>>,
     full_text |-> <<"ref", major, minor>>,
     major_reference_id |-> link]

\* lists without repetition of at most n members of S
RECURSIVE ListsOf(_, _)
ListsOf(S, n) ==
    IF n = 0 THEN {<<>>}
    ELSE ListsOf(S, n - 1)
         \cup {Append(l, x) : l \in {m \in ListsOf(S, n - 1) : Len(m) = n - 1}, x \in S}

Distinct(l) == \A i, j \in 1..Len(l) : l[i] = l[j] => i = j

MajorLists ==
    {l \in ListsOf({MajorRef(id) : id \in 1..3}, 3) : Distinct(l)}

\* two references of section 1, one of section 2 (listed under the code of
\* section 3), and one whose section 9 is never loaded
RefLists ==
    {l \in ListsOf({CurriculumRef(1, 1, 1), CurriculumRef(1, 2, 1),
                     CurriculumRef(3, 1, 2), CurriculumRef(9, 1, 9)}, MaxRefs) :
        Distinct(l)}

PromptStates ==
    {[activity |-> Text(0, 1, 0),
      theme |-> Text(0, 0, 0),
      validation_errors |-> <<>>,
      validation_passed |-> TRUE,
      prompt_template |-> GoodTemplate,
      available_modules |-> DbModules,
      curriculum_refs |-> r,
      major_curriculum_refs |-> m,
      example_entries |-> DbExamples] : m \in MajorLists, r \in RefLists}

InitPrompt ==
    /\ pc = "construct_prompt"
    /\ state \in PromptStates
    /\ active = {}
    /\ writes = [n \in {} |-> EmptyDict]
    /\ executed = <<>>
    /\ failed = {}
    /\ dbReads = 0
    /\ llmCalls = 0
    /\ exception = "none"
    /\ route = "none"
    /\ inputCheck = "passed"
    /\ parsedIn = EmptyDict
    /\ clientCalls = <<>>
    /\ SvcIdle
    /\ db = NoDb

NextPrompt == ConstructPrompt

SpecPrompt == InitPrompt /\ [][NextPrompt]_vars

-----------------------------------------------------------------------------
(* nodes/llm_client.py: OpenRouterClient.generate seen from two runs of    *)
(* the same input, the second made after the first; the API answers each   *)
(* attempt in its own way.                                                 *)

ClientRequest(n) ==
    [activity |-> Text(0, 1, 0), theme |-> Text(0, 0, 0), attempt |-> n]

ClientRequests == {ClientRequest(n) : n \in TwoInstances}

\* a JSON object that carries a "reasoning" key beside its own
WithReasoning(obj) == Merge(obj, [reasoning |-> JString])

\* what chat.completions.create may do: raise APITimeoutError or
\* APIStatusError, or answer with a content
ClientOutcomes ==
    {ApiRaises("Request timed out."),
     ApiRaises("Error code: 500"),
     ApiResponse(Raw("none", EmptyDict), NoTokens),
     ApiResponse(Raw("text", EmptyDict), Tokens(1400, 180)),
     ApiResponse(Raw("array", EmptyDict), Tokens(1400, 180)),
     ApiResponse(Raw("json", GoodObject), Tokens(1400, 180)),
     ApiResponse(Raw("json", BadObject), Tokens(1400, 180)),
     ApiResponse(Raw("json", WithReasoning(BadObject)), Tokens(1400, 900)),
     ApiReasoned(Raw("json", BadObject), Tokens(1400, 900)),
     ApiReasoned(Raw("json", GoodObject), Tokens(1400, 900)),
     ApiResponse(Think(GoodObject, EmptyDict), Tokens(1400, 900)),
     ApiResponse(Think(GoodObject, BadObject), Tokens(1400, 900))}

\* fallback prices an operator configures in place of the defaults
OperatorFallbackPricing == Price(30, 150)

ClientEnvs ==
    [failing : {{}},
     api : [ClientRequests -> ClientOutcomes],
     pricing_mock : BOOLEAN,
     fallback_price : {SettingsFallbackPricing, OperatorFallbackPricing}]

\* a request whose prompt is built, about to call generate
ClientCaller(request, e) ==
    [NewRequest(request) EXCEPT !.pc = "generate_llm",
                                !.state = PromptState(request, e)]

InitClient ==
    /\ WfIdle
    /\ procs = TwoInstances
    /\ env \in ClientEnvs
    /\ req = [p \in TwoInstances |-> ClientCaller(ClientRequest(p), env)]
    /\ pricing = PricingCache(<<>>, FALSE)
    /\ db = NoDb

NextClient ==
    \E p \in procs :
        \/ SvcCallApi(p)
        \/ SvcApiReturns(p)
        \/ SvcFetchPricing(p)
        \/ SvcPricingReturns(p)
        \/ SvcParseResponse(p)
        \/ SvcValidateOutput(p)
        \/ SvcFormatSuccess(p)
        \/ SvcFormatError(p)
        \/ SvcRespond(p)

SpecClient == InitClient /\ [][NextClient]_vars

-----------------------------------------------------------------------------
(* utils/cost_tracker.py: the PricingCache when several models are in use: *)
(* one _cache keyed by model, one _cache_time for all of them, and the     *)
(* time of datetime.now().  Two callers call fetch_pricing again and again.*)

\* time is counted in units of which ttl_seconds holds two
ttl_seconds == 2
MaxTime == 4

ModelsInUse == {"anthropic/claude-3.5-haiku", "openai/gpt-4o-mini"}

NoPrices == [m \in {} |-> FallbackPricing]
NoTimes == [m \in {} |-> 0]

\* PricingCache.__init__: cache is _cache, cache_time is _cache_time (<<>>
\* for None), lock is the caller that holds _lock (0 when free), now is
\* the time; stamped is the time at which the price of each model was last
\* fetched, unserved are the models whose latest request failed
NewPricingCache ==
    [cache |-> NoPrices, lock |-> 0, cache_time |-> <<>>, now |-> 0,
     stamped |-> NoTimes, unserved |-> {}]

\* _is_cache_valid
is_cache_valid(c) ==
    /\ c.cache_time # <<>>
    /\ c.now - c.cache_time[1] < ttl_seconds

\* a caller of fetch_pricing: what its latest call was for, and what it gave
Fetcher(at, price, how, model, age) ==
    [pc |-> at, price |-> price, how |-> how, model |-> model, age |-> age]

\* the cache after the request for model has returned: the price is stored
\* and the time is set when the listing holds the model, and nothing is
\* changed otherwise; the lock is released
fetch_pricing_update(c, model, result, price) ==
    IF result = "found"
    THEN [c EXCEPT !.cache = Merge(c.cache, [m \in {model} |-> price]),
                   !.lock = 0,
                   !.cache_time = <<c.now>>,
                   !.stamped = Merge(c.stamped, [m \in {model} |-> c.now]),
                   !.unserved = c.unserved \ {model}]
    ELSE [c EXCEPT !.lock = 0, !.unserved = c.unserved \cup {model}]

\* fetch_pricing(api_key, model) up to the request: the lock is taken; a
\* valid cache that holds the model answers at once
CacheFetch(p, model) ==
    /\ req[p].pc \in {"idle", "returned"}
    /\ LockFree(pricing)
    /\ IF is_cache_valid(pricing) /\ model \in DOMAIN pricing.cache
       THEN /\ req' = Put(req, p, Fetcher("returned", pricing.cache[model], "cached",
                                          model, pricing.now - pricing.stamped[model]))
            /\ UNCHANGED pricing
       ELSE /\ req' = Put(req, p, Fetcher("pricing_http", FallbackPricing, "none",
                                          model, 0))
            /\ pricing' = [pricing EXCEPT !.lock = p]
    /\ UNCHANGED <<wfVars, db, procs, env>>

\* the pricing endpoint answers the request of caller p
CacheAnswered(p) ==
    /\ req[p].pc = "pricing_http"
    /\ \E result \in HttpResults, price \in UpstreamPrices :
          /\ pricing' = fetch_pricing_update(pricing, req[p].model, result, price)
          /\ req' = Put(req, p,
                        Fetcher("returned",
                                IF result = "found" THEN price ELSE FallbackPricing,
                                result, req[p].model, 0))
    /\ UNCHANGED <<wfVars, db, procs, env>>

\* time passes
Tick ==
    /\ pricing.now < MaxTime
    /\ pricing' = [pricing EXCEPT !.now = pricing.now + 1]
    /\ UNCHANGED <<wfVars, db, procs, env, req>>

InitCache ==
    /\ WfIdle
    /\ procs = TwoInstances
    /\ env = [failing |-> {}]
    /\ req = [p \in TwoInstances |-> Fetcher("idle", FallbackPricing, "none", "", 0)]
    /\ pricing = NewPricingCache
    /\ db = NoDb

NextCache ==
    \/ \E p \in procs :
          \/ \E model \in ModelsInUse : CacheFetch(p, model)
          \/ CacheAnswered(p)
    \/ Tick

SpecCache == InitCache /\ [][NextCache]_vars

-----------------------------------------------------------------------------
(* Properties                                                              *)

Ran(node) == \E i \in 1..Len(executed) : executed[i] = node

RunOver == pc \in {"END", "raised"}

HasResponse == "final_response" \in DOMAIN state

FormatterRuns ==
    Cardinality({i \in 1..Len(executed) :
                    executed[i] \in {"format_success", "format_error"}})

AllFields(parsed) == {"modules", "curriculum_refs", "objectives"} \subseteq DOMAIN parsed

\* the errors of a list whose id is in ids, in order
ErrorsOf(errors, ids) == SelectSeq(errors, LAMBDA e : e.id \in ids)

ModulesErrorIds ==
    {"modules_not_list", "modules_empty", "modules_too_many", "modules_invalid"}
RefsErrorIds ==
    {"refs_not_list", "refs_empty", "refs_all_invalid", "refs_too_many"}

ObjectivesErrorIds ==
    {"objectives_not_list", "objectives_empty", "objectives_too_many",
     "objective_not_text", "objective_too_short"}

\* positions of the members of V in the list l
MemberIdx(l, V) == {i \in 1..Len(l) : l[i] \in V}

\* r holds exactly the members of V in l, in the order of l
IsSublistOfMembers(r, l, V) ==
    /\ Len(r) = Cardinality(MemberIdx(l, V))
    /\ \A k \in 1..Len(r) :
          \E i \in MemberIdx(l, V) :
              /\ Cardinality({j \in MemberIdx(l, V) : j <= i}) = k
              /\ r[k] = l[i]

C4_SuccessRecordEchoesOutput ==
    (RunOver /\ route = "success") =>
        /\ pc = "END"
        /\ HasResponse
        /\ state["final_response"].kind = "Success"
        /\ state["final_response"].activity = state["activity"]
        /\ state["final_response"].curriculum_refs
              = state["llm_parsed_output"]["curriculum_refs"]
        /\ state["final_response"].objectives
              = state["llm_parsed_output"]["objectives"]

\* C5 (as claimed): when the LLM returns text from which no JSON object can
\* be recovered, the run ends with an Error record whose code is
\* PARSING_ERROR.
C5_MalformedOutputIsParsingError ==
    (RunOver /\ "llm_raw_response" \in DOMAIN state
             /\ state["llm_raw_response"].kind \in {"text", "fenced_bad"}) =>
        /\ pc = "END"
        /\ state["final_response"].kind = "Error"
        /\ state["final_response"].error_code = "PARSING_ERROR"

\* C6: a run whose input fails input validation (activity empty after trim,
\* activity longer than 500 characters, theme longer than 200 characters)
\* ends with an Error record whose code is INVALID_INPUT.
C6_InvalidInputCode ==
    (RunOver /\ (\/ state["activity"].len = 0
                 \/ state["activity"].len > MAX_ACTIVITY_LENGTH
                 \/ state["theme"].len > MAX_THEME_LENGTH)) =>
        /\ pc = "END"
        /\ state["final_response"].kind = "Error"
        /\ state["final_response"].error_code = "INVALID_INPUT"

C6_Witness ==
    /\ pc = "END"
    /\ state["activity"].len \in 1..MAX_ACTIVITY_LENGTH
    /\ state["theme"].len > MAX_THEME_LENGTH
    /\ state["final_response"].error_code = "INVALID_INPUT"

\* C7: validate_input stores the trimmed activity and theme; it sets
\* validation_passed and leaves the error list empty exactly when the
\* trimmed activity has 1 to 500 characters and the trimmed theme at most
\* 200; otherwise validation_passed is false and there is one error for
\* each violated field.
C7_ValidateInput ==
    [][pc = "validate_input" =>
          LET aLen == state["activity"].len
              tLen == state["theme"].len
              aBad == aLen = 0 \/ aLen > MAX_ACTIVITY_LENGTH
              tBad == tLen > MAX_THEME_LENGTH
              errors == state'["validation_errors"]
          IN  /\ state'["activity"] = Text(0, aLen, 0)
              /\ state'["theme"] = Text(0, tLen, 0)
              /\ state'["validation_passed"] = (~aBad /\ ~tBad)
              /\ state'["validation_passed"] = (errors = <<>>)
              /\ Len(errors) = (IF aBad THEN 1 ELSE 0) + (IF tBad THEN 1 ELSE 0)
              /\ aBad <=> ErrorsOf(errors, {"activity_empty", "activity_too_long"}) # <<>>
              /\ tBad <=> ErrorsOf(errors, {"theme_too_long"}) # <<>>
    ]_vars

C7_Witness ==
    /\ pc = "loaders"
    /\ state["validation_passed"]
    /\ state["validation_errors"] = <<>>
    /\ state["activity"] = Text(0, MAX_ACTIVITY_LENGTH, 0)
    /\ state["theme"] = Text(0, MAX_THEME_LENGTH, 0)

\* C8: when the curriculum_refs list validate_output receives holds valid
\* and invalid codes and 1 to 10 of them are valid, the curriculum step adds
\* no error and the field becomes exactly the valid codes in their original
\* order; the list 4.15, 99.99, 4.18, bad with the valid codes 4.15 and 4.18
\* becomes 4.15, 4.18 and, with a valid module and objective, validation
\* passes.
C8_LenientFiltering ==
    (Ran("validate_output") /\ AllFields(parsedIn)
        /\ IsList(parsedIn["curriculum_refs"])) =>
        LET l == parsedIn["curriculum_refs"].items
            V == ValidCodes(state)
            n == Cardinality(MemberIdx(l, V))
            out == state["llm_parsed_output"]["curriculum_refs"]
        IN  (n \in 1..MAX_CURRICULUM_REFS /\ n < Len(l)) =>
               /\ ErrorsOf(state["validation_errors"], RefsErrorIds) = <<>>
               /\ IsList(out)
               /\ IsSublistOfMembers(out.items, l, V)
               /\ (l = <<"4.15", "99.99", "4.18", "bad">> /\ V = {"4.15", "4.18"}) =>
                     /\ out.items = <<"4.15", "4.18">>
                     /\ (parsedIn["modules"] = JList(<<"MATEMATYKA">>)
                           /\ "MATEMATYKA" \in ValidModules(state)
                           /\ parsedIn["objectives"] = JList(<<GoodObjective>>))
                          => state["validation_passed"]

C8_Witness ==
    /\ Ran("validate_output")
    /\ AllFields(parsedIn)
    /\ parsedIn["curriculum_refs"] = JList(<<"4.15", "99.99", "4.18", "bad">>)
    /\ state["llm_parsed_output"]["curriculum_refs"] = JList(<<"4.15", "4.18">>)
    /\ state["validation_passed"]

\* C9: the curriculum step of validate_output records an error exactly when
\* the codes of the list that are valid codes are none or more than 10;
\* invalid codes in the list do not by themselves cause an error.
C9_CurriculumErrorIffNoneOrTooMany ==
    (Ran("validate_output") /\ AllFields(parsedIn)) =>
        LET refs == parsedIn["curriculum_refs"]
            n == IF IsList(refs)
                 THEN Cardinality(MemberIdx(refs.items, ValidCodes(state)))
                 ELSE 0
        IN  (ErrorsOf(state["validation_errors"], RefsErrorIds) # <<>>)
               <=> (n = 0 \/ n > MAX_CURRICULUM_REFS)

C9_Witness ==
    /\ Ran("validate_output")
    /\ AllFields(parsedIn)
    /\ parsedIn["curriculum_refs"] = JList(<<"bad">> \o Repeat("4.18", MAX_CURRICULUM_REFS))
    /\ "4.18" \in ValidCodes(state)
    /\ ErrorsOf(state["validation_errors"], RefsErrorIds) = <<>>

\* C10: in validate_output a modules list of 0 items fails; a list of 1 to 3
\* items passes the modules check exactly when every item is a valid
\* module, and otherwise fails with one error that names all the invalid
\* entries; a list of 4 or more items fails even when every item is valid;
\* the modules list is never filtered.
C10_ModulesCheck ==
    (Ran("validate_output") /\ AllFields(parsedIn) /\ IsList(parsedIn["modules"])) =>
        LET l == parsedIn["modules"].items
            V == ValidModules(state)
            errs == ErrorsOf(state["validation_errors"], ModulesErrorIds)
            invalidIdx == {i \in 1..Len(l) : l[i] \notin V}
        IN  /\ Len(l) = 0 => errs # <<>>
            /\ Len(l) > MAX_MODULES => errs # <<>>
            /\ Len(l) \in 1..MAX_MODULES => ((errs = <<>>) <=> (invalidIdx = {}))
            /\ (Len(l) \in 1..MAX_MODULES /\ invalidIdx # {}) =>
                  /\ Len(errs) = 1
                  /\ Len(errs[1].texts) = Cardinality(invalidIdx)
                  /\ Range(errs[1].texts) = {l[i] : i \in invalidIdx}
            /\ Len(errs) <= 1
            /\ state["llm_parsed_output"]["modules"] = parsedIn["modules"]

C10_Witness ==
    /\ Ran("validate_output")
    /\ AllFields(parsedIn)
    /\ parsedIn["modules"] = JList(Repeat("MATEMATYKA", MAX_MODULES + 1))
    /\ "MATEMATYKA" \in ValidModules(state)
    /\ ErrorsOf(state["validation_errors"], ModulesErrorIds) # <<>>

SliceEmpty(node) ==
    CASE node = "load_modules" -> Get(state, "available_modules", <<>>) = <<>>
      [] node = "load_curriculum_refs" ->
             /\ Get(state, "curriculum_refs", <<>>) = <<>>
             /\ Get(state, "major_curriculum_refs", <<>>) = <<>>
      [] node = "load_examples" -> Get(state, "example_entries", <<>>) = <<>>
      [] node = "load_template" ->
             ~Get(state, "prompt_template", EmptyTemplate).nonempty

\* the parallel step of the loaders has just ended
LoadersJustEnded ==
    /\ inputCheck = "passed"
    /\ Len(executed) = 1 + Cardinality(Loaders)
    /\ \A n \in Loaders : Ran(n)

\* C12 (as claimed): when exactly one loader fails in a run, whether or not
\* the initial state already holds the prompt template, all four loaders
\* complete, no exception leaves the pipeline, the run goes on to
\* construct_prompt, the slice of the failed loader is empty and the error
\* list holds exactly one error, the one of that loader.
C12_OneLoaderFailureDegrades ==
    (LoadersJustEnded /\ Cardinality(failed) = 1) =>
        /\ exception = "none"
        /\ pc = "construct_prompt"
        /\ \A n \in failed : SliceEmpty(n)
        /\ Len(Get(state, "validation_errors", <<>>)) = 1

\* C13 (as claimed): the error list is never cleared: every error that is in
\* validation_errors in some state of a run is still in validation_errors in
\* the next state, and so in every later state, up to the state the
\* formatter reads.
C13_ErrorListNeverCleared ==
    [][Range(Get(state, "validation_errors", <<>>))
          \subseteq Range(Get(state', "validation_errors", <<>>))]_vars

\* the LLM client was called in this step and raised
ClientRaisedInStep ==
    /\ Len(clientCalls') = Len(clientCalls) + 1
    /\ clientCalls'[Len(clientCalls')].raised

\* C14: when the LLM client raises (timeout, error status, empty content or
\* any other exception), generate_with_llm raises nothing: the run goes on
\* to parse_llm_response with an empty raw response, validation_passed
\* false and the error list it had before plus exactly one error.
C14_LLMFailureIsRecorded ==
    [][ClientRaisedInStep =>
          LET before == Get(state, "validation_errors", <<>>)
              after == Get(state', "validation_errors", <<>>)
          IN  /\ pc' = "parse_response"
              /\ exception' = "none"
              /\ state'["llm_raw_response"] = EmptyRaw
              /\ state'["validation_passed"] = FALSE
              /\ Len(after) = Len(before) + 1
              /\ SubSeq(after, 1, Len(before)) = before
              /\ after[Len(after)].id = "llm_failed"
    ]_vars

C14_Witness ==
    /\ pc = "parse_response"
    /\ clientCalls = <<Raised("Response content is None")>>
    /\ state["llm_raw_response"] = EmptyRaw
    /\ ~state["validation_passed"]
    /\ Len(state["validation_errors"]) = 2
    /\ state["validation_errors"][2]
          = Err("llm_failed", 0, <<"Response content is None">>)

\* C15 (as claimed): a run in which the call of the LLM failed with a timeout
\* or an upstream API error ends with an Error record whose code is
\* LLM_ERROR.
C15_LLMFailureCode ==
    (RunOver /\ clientCalls # <<>>
             /\ clientCalls[1] \in {Raised("Request timed out."),
                                     Raised("Error code: 500")}) =>
        /\ pc = "END"
        /\ state["final_response"].kind = "Error"
        /\ state["final_response"].error_code = "LLM_ERROR"

\* the pricing lookup of request p failed: the pricing endpoint gave an
\* error or a listing without the model, or fetch_pricing raised
LookupFailed(p) == req[p].lookup \in {"error", "notfound", "raised"}

\* C16: when the pricing lookup fails (error from the pricing endpoint,
\* model not in the listing, or fetch_pricing raising), generate raises
\* nothing: generate_with_llm gets the response text and a usage whose
\* estimated cost is the one computed from the fallback prices, and records
\* no error.
C16_PricingFailureFallsBack ==
    \A p \in procs :
        (LookupFailed(p) /\ req[p].pc = "parse_response") =>
            /\ req[p].exception = "none"
            /\ req[p].state["llm_raw_response"] = req[p].content
            /\ req[p].content.kind = "json"
            /\ "estimated_cost" \in DOMAIN req[p].state
            /\ req[p].state["estimated_cost"]
                  = calculate_cost(req[p].tokens.input, req[p].tokens.output, 25, 125)
            /\ req[p].state["input_tokens"] = req[p].tokens.input
            /\ req[p].state["validation_errors"] = <<>>

C16_Witness ==
    \E p \in procs :
        /\ req[p].lookup = "raised"
        /\ req[p].pc = "parse_response"
        /\ req[p].state["llm_raw_response"] = Raw("json", GoodObject)
        /\ req[p].state["estimated_cost"] = 57500

\* the callers whose request to the pricing endpoint is under way
InFlight == {p \in procs : req[p].pc = "pricing_http"}

\* the callers whose request to the pricing endpoint has returned
Requested == {p \in procs : req[p].lookup \in {"found", "notfound", "error"}}

\* generate of caller p computed the cost from price
CostAt(p, price) ==
    /\ req[p].pc = "parse_response"
    /\ req[p].state["estimated_cost"]
          = calculate_cost(req[p].tokens.input, req[p].tokens.output,
                           price.prompt, price.completion)

\* C17 (as stated): callers that reach fetch_pricing together while the
\* cache is empty or expired cause at most one request to the pricing
\* endpoint, and every caller that sent none got the price in the cache.
C17_AtMostOneUpstreamRequest ==
    /\ pricing.upstream <= 1
    /\ \A p \in procs :
          (req[p].pc = "parse_response" /\ p \notin Requested) =>
              (pricing.cache # <<>> /\ CostAt(p, pricing.cache[1]))

\* C17 (amended): the lock serializes the lookups, so at most one request to
\* the pricing endpoint is under way at a time, sent by the holder of the
\* lock, and each caller sends at most one; while the cache holds a price
\* that has not expired no request is sent and a caller gets that price; a
\* caller served from the cache got a price that the request of another
\* caller found.
C17_LookupsSerialized ==
    /\ [](/\ Cardinality(InFlight) <= 1
          /\ \A p \in InFlight : pricing.lock = p
          /\ pricing.upstream = Cardinality(Requested) + Cardinality(InFlight)
          /\ \A p \in procs :
                req[p].lookup = "cached" =>
                    \E q \in procs \ {p}, price \in UpstreamPrices :
                        /\ req[q].lookup = "found"
                        /\ CostAt(q, price)
                        /\ CostAt(p, price))
    /\ [][CacheHit(pricing) =>
            /\ pricing'.upstream = pricing.upstream
            /\ \A p \in procs :
                  (req[p].pc = "fetch_pricing" /\ req'[p].pc # "fetch_pricing") =>
                      /\ req'[p].lookup = "cached"
                      /\ req'[p].state["estimated_cost"]
                            = calculate_cost(req[p].tokens.input, req[p].tokens.output,
                                             pricing.cache[1].prompt,
                                             pricing.cache[1].completion)]_vars

C17_Witness ==
    \E p, q \in procs :
        /\ req[p].lookup = "found"
        /\ req[q].lookup = "cached"
        /\ pricing.upstream = 1
        /\ pricing.cache # <<>>
        /\ CostAt(p, pricing.cache[1])
        /\ CostAt(q, pricing.cache[1])

\* C18: with the context store and the answers of the LLM fixed, two runs
\* with the same activity and theme end with the same response, whatever
\* the pricing cache held at the start and whatever the other run did to it
\* meanwhile.
C18_SameInputSameResult ==
    \A p, q \in procs :
        (/\ req[p].pc = "done"
         /\ req[q].pc = "done"
         /\ req[p].request = req[q].request) =>
            req[p].response = req[q].response

\* two finished runs of the same input whose pricing lookups differed
C18_Witness ==
    \E p, q \in procs :
        /\ req[p].pc = "done"
        /\ req[q].pc = "done"
        /\ req[p].request = req[q].request
        /\ req[p].lookup = "found"
        /\ req[q].lookup \in {"cached", "error"}
        /\ req[p].state["estimated_cost"] # req[q].state["estimated_cost"]
        /\ req[p].response.kind = "Error"

\* a node returned u: the run goes on with F(u) unless u raises
Bind(u, F(_)) == IF Raises(u) THEN u ELSE F(u)

\* what generate gives to a run alone on an empty cache whose pricing
\* request finds price
SoloOutcome(s, request, e, price) ==
    LET api == e.api[request]
        extracted == ExtractContent(api.content)
    IN  IF ~CallsLLM(s) THEN Raised("not called")
        ELSE IF api.raises THEN Raised(api.text)
        ELSE IF extracted.raised THEN extracted
        ELSE generate_return(extracted.raw, api.tokens,
                             IF e.pricing_mock THEN LookupRaised ELSE Lookup(price))

\* the graph run on the request alone, node after node
SoloRun(request, e, price) ==
    LET checked == validate_input(initial_state(request))
        AfterOutput(s) ==
            IF should_continue_after_output_validation(s) = "success"
            THEN format_success(s) ELSE format_error(s)
        AfterPrompt(s) ==
            Bind(Bind(Bind(generate_with_llm(s, SoloOutcome(s, request, e, price)),
                           parse_llm_response),
                      validate_output),
                 AfterOutput)
        AfterInput(s) ==
            Bind(Bind(load_context(s, e), construct_prompt), AfterPrompt)
    IN  IF should_continue_after_input_validation(checked) = "loaders"
        THEN AfterInput(checked)
        ELSE format_error(checked)

\* the response of fill_work_plan to the request when no other request runs
SoloResponse(request, e, price) ==
    LET final == SoloRun(request, e, price)
    IN  IF Raises(final) THEN fill_work_plan_response(EmptyDict, final.raise)
        ELSE fill_work_plan_response(final, "none")

\* C19: two requests run concurrently each end with the response they give
\* when run alone, and a step of one request leaves every field of the
\* other request's workflow state as it was.
C19_InstancesIsolated ==
    /\ [](\A p \in procs :
              req[p].pc = "done" =>
                  \A price \in UpstreamPrices :
                      req[p].response = SoloResponse(req[p].request, env, price))
    /\ [][\A p, q \in procs :
              (p # q /\ req'[p] # req[p]) => req'[q] = req[q]]_vars

\* both requests are done, with different inputs and different responses,
\* after steps of the two were interleaved
C19_Witness ==
    /\ \A p \in procs : req[p].pc = "done"
    /\ req[1].request # req[2].request
    /\ req[1].response # req[2].response
    /\ req[1].lookup = "found"
    /\ req[2].lookup = "none"
    /\ req[2].response.kind = "Error"
    /\ "validation_errors" \in DOMAIN req[2].response.details

\* the messages into which the source interpolates str(e) of an exception
ExceptionIds ==
    {"load_modules_failed", "load_refs_failed", "load_examples_failed",
     "load_template_failed", "template_key", "prompt_unexpected",
     "llm_failed", "json_parse_error"}

HasExceptionText(errors) ==
    \E i \in 1..Len(errors) : errors[i].id \in ExceptionIds /\ errors[i].texts # <<>>

\* the Error record quotes an exception in its message or holds one in its
\* details
CarriesExceptionText(response) ==
    /\ response.kind = "Error"
    /\ \/ HasExceptionText(response.error.quoted)
       \/ /\ "validation_errors" \in DOMAIN response.details
          /\ HasExceptionText(response.details["validation_errors"])
       \/ "error" \in DOMAIN response.details

TimesRun(node) == Cardinality({i \in 1..Len(executed) : executed[i] = node})

\* no node was executed twice and the LLM client was called at most once
NoNodeTwice ==
    /\ \A i, j \in 1..Len(executed) : executed[i] = executed[j] => i = j
    /\ llmCalls <= 1
    /\ Len(clientCalls) = llmCalls

\* a step of the graph never leads back: the history of executed nodes only
\* grows, by the one node that ran
NoLoopBack ==
    [][/\ Len(executed') = Len(executed) + 1
       /\ SubSeq(executed', 1, Len(executed)) = executed]_vars

\* C21: every run ends at END after finitely many steps; no node runs more
\* than once, the LLM is called at most once per run and no step leads back
\* to a node that ran before.
C21_RunTerminatesAtEnd ==
    /\ []NoNodeTwice
    /\ NoLoopBack
    /\ <>(pc = "END")

\* the list of codes is in the numeric order of (major, minor)
NumericOrder(codes) ==
    \A i, j \in 1..Len(codes) :
        i < j => \/ codes[i][1] < codes[j][1]
                 \/ (codes[i][1] = codes[j][1] /\ codes[i][2] <= codes[j][2])

\* C22: get_curriculum_references returns the references of the table in
\* the numeric order of the (major, minor) pair of their codes, so that
\* 2.10 comes after 2.9.
C22_NumericOrder ==
    db.calls = 1 =>
        /\ ~Raises(db.returned)
        /\ Len(db.returned) = Cardinality(db.rows)
        /\ NumericOrder([i \in 1..Len(db.returned) |-> db.returned[i].reference_code])

\* the position of the first execution of node in the history, 0 if none
FirstRun(node) ==
    IF Ran(node) THEN CHOOSE i \in 1..Len(executed) :
                          /\ executed[i] = node
                          /\ \A j \in 1..(i - 1) : executed[j] # node
    ELSE 0

LoaderErrorIds(nodes) ==
    {CASE n = "load_modules" -> "load_modules_failed"
       [] n = "load_curriculum_refs" -> "load_refs_failed"
       [] n = "load_examples" -> "load_examples_failed"
       [] n = "load_template" -> "template_missing" : n \in nodes}

\* C24: when two or more loaders fail in a run, the step of the loaders
\* still ends without an exception, the run goes on to construct_prompt and
\* the error list holds exactly one error per failed loader.
C24_LoaderErrorsMerged ==
    (LoadersJustEnded /\ Cardinality(failed) >= 2) =>
        /\ exception = "none"
        /\ pc = "construct_prompt"
        /\ Len(Get(state, "validation_errors", <<>>)) = Cardinality(failed)
        /\ \A n \in failed :
              \E i \in 1..Len(state["validation_errors"]) :
                  state["validation_errors"][i].id
                      \in LoaderErrorIds({n}) \cup {"load_template_failed"}

\* C25: when the state already holds a prompt template, the update that
\* load_prompt_template returns writes no key other than prompt_template,
\* so it shares no key with the update of another loader of the same step.
C25_CachedTemplateWritesNothingElse ==
    (/\ pc = "loaders"
     /\ Get(state, "prompt_template", EmptyTemplate).nonempty
     /\ "load_template" \in DOMAIN writes) =>
        /\ DOMAIN writes["load_template"] \subseteq {"prompt_template"}
        /\ \A n \in DOMAIN writes \ {"load_template"} :
              DOMAIN writes[n] \cap DOMAIN writes["load_template"] = {}

\* the required fields that the parsed output lacks, in the order of the list
MissingFields(parsed) ==
    SelectSeq(required_fields, LAMBDA f : f \notin DOMAIN parsed)

\* C26: when the parsed output lacks a required field, validate_output fails
\* with exactly one error per missing field, in the order of the fields, and
\* with no other error; the parsed output, its curriculum_refs included, is
\* left as it was received and the run is routed to format_error.
C26_MissingFieldsShortCircuit ==
    (route # "none" /\ MissingFields(parsedIn) # <<>>) =>
        /\ state["validation_passed"] = FALSE
        /\ state["validation_errors"]
              = [i \in 1..Len(MissingFields(parsedIn)) |->
                    Err("missing_" \o MissingFields(parsedIn)[i], 0, <<>>)]
        /\ Get(state, "llm_parsed_output", EmptyDict) = parsedIn
        /\ route = "error"

\* modules and objectives are missing and the codes present would have been
\* filtered had the curriculum check run
C26_Witness ==
    /\ route = "error"
    /\ parsedIn = [curriculum_refs |-> JList(<<"4.15", "99.99">>)]
    /\ Len(state["validation_errors"]) = 2
    /\ state["llm_parsed_output"]["curriculum_refs"] = JList(<<"4.15", "99.99">>)
    /\ ValidCodes(state) # {}

\* the three item checks, stated on the value of the field
ModulesViolated(parsed, valid_modules) ==
    \/ ~IsList(parsed["modules"])
    \/ Len(parsed["modules"].items) \notin 1..MAX_MODULES
    \/ \E m \in Range(parsed["modules"].items) : m \notin valid_modules

CurriculumViolated(parsed, valid_codes) ==
    \/ ~IsList(parsed["curriculum_refs"])
    \/ Cardinality({i \in 1..Len(parsed["curriculum_refs"].items) :
                       parsed["curriculum_refs"].items[i] \in valid_codes})
          \notin 1..MAX_CURRICULUM_REFS

ObjectivesViolated(parsed) ==
    \/ ~IsList(parsed["objectives"])
    \/ Len(parsed["objectives"].items) \notin 1..MAX_OBJECTIVES
    \/ \E o \in Range(parsed["objectives"].items) :
          ~IsText(o) \/ TextLen(Strip(o)) < MIN_OBJECTIVE_LENGTH

\* C27: when the three required fields are present, each of the modules,
\* curriculum and objectives checks is evaluated whatever the others found:
\* the error list is the errors of the modules check, then those of the
\* curriculum check, then those of the objectives check, a check records an
\* error exactly when its field violates it, and validation_passed is true
\* exactly when no error was recorded.
C27_AllChecksEvaluated ==
    (route # "none" /\ MissingFields(parsedIn) = <<>>) =>
        LET errors == state["validation_errors"]
            valid_modules == ValidModules(state)
            valid_codes == ValidCodes(state)
        IN  /\ errors = ModulesErrors(parsedIn["modules"], valid_modules)
                         \o CurriculumErrors(parsedIn["curriculum_refs"], valid_codes)
                         \o ObjectivesErrors(parsedIn["objectives"])
            /\ (ErrorsOf(errors, ModulesErrorIds) # <<>>)
                  <=> ModulesViolated(parsedIn, valid_modules)
            /\ (ErrorsOf(errors, RefsErrorIds) # <<>>)
                  <=> CurriculumViolated(parsedIn, valid_codes)
            /\ (ErrorsOf(errors, ObjectivesErrorIds) # <<>>)
                  <=> ObjectivesViolated(parsedIn)
            /\ state["validation_passed"] <=> (errors = <<>>)
            /\ state["validation_passed"] <=> (route = "success")

\* the three fields each violate their check and the three errors are recorded
C27_Witness ==
    /\ route = "error"
    /\ MissingFields(parsedIn) = <<>>
    /\ ErrorsOf(state["validation_errors"], ModulesErrorIds) # <<>>
    /\ ErrorsOf(state["validation_errors"], RefsErrorIds) # <<>>
    /\ ErrorsOf(state["validation_errors"], ObjectivesErrorIds) # <<>>
    /\ state["validation_passed"] = FALSE

\* output validation failed on the check that reports the ids, and on no other
FailedOnlyOn(ids) ==
    /\ route = "error"
    /\ MissingFields(parsedIn) = <<>>
    /\ state["validation_errors"] # <<>>
    /\ \A e \in Range(state["validation_errors"]) : e.id \in ids

\* C28: when output validation fails on exactly one of the modules,
\* curriculum and objectives checks, the Error record carries the code of
\* that check (INVALID_MODULES, INVALID_CURRICULUM_REFS, INVALID_OBJECTIVES),
\* whichever violation the check reported.
C28_CodeOfTheFailedCheck ==
    HasResponse =>
        /\ FailedOnlyOn(ModulesErrorIds) =>
              state["final_response"].error_code = "INVALID_MODULES"
        /\ FailedOnlyOn(RefsErrorIds) =>
              state["final_response"].error_code = "INVALID_CURRICULUM_REFS"
        /\ FailedOnlyOn(ObjectivesErrorIds) =>
              state["final_response"].error_code = "INVALID_OBJECTIVES"

\* the keys validate_output may change, and the one entry of the parsed
\* output it may rewrite
ValidateOutputWrites == {"validation_passed", "validation_errors", "llm_parsed_output"}

ValidateOutputFrame ==
    LET before == Get(state, "llm_parsed_output", EmptyDict)
        after == Get(state', "llm_parsed_output", EmptyDict)
    IN  /\ DOMAIN state \subseteq DOMAIN state'
        /\ DOMAIN state' \ DOMAIN state \subseteq ValidateOutputWrites
        /\ \A k \in DOMAIN state \ ValidateOutputWrites : state'[k] = state[k]
        /\ ("llm_parsed_output" \in DOMAIN state') = ("llm_parsed_output" \in DOMAIN state)
        /\ DOMAIN after = DOMAIN before
        /\ \A k \in DOMAIN before \ {"curriculum_refs"} : after[k] = before[k]

\* C29: the step of validate_output changes nothing in the workflow state
\* except validation_passed, validation_errors and the curriculum_refs entry
\* of the parsed output: the modules and objectives of the parsed output, the
\* loaded context collections, the input fields, the template and the prompt
\* are the same after the step as before it.
C29_ValidateOutputFrame ==
    [][(pc = "validate_output" /\ pc' # "validate_output") => ValidateOutputFrame]_vars

\* validate_output ran in a workflow run on an output with valid and invalid
\* codes: the list of codes was rewritten, the modules, the objectives, the
\* context and the prompt are in place
C29_Witness ==
    /\ route = "success"
    /\ pc = "format_success"
    /\ llmCalls = 1
    /\ AllFields(parsedIn)
    /\ parsedIn["curriculum_refs"] = JList(<<"4.15", "99.99", "4.18", "bad">>)
    /\ state["llm_parsed_output"]["curriculum_refs"] = JList(<<"4.15", "4.18">>)
    /\ state["llm_parsed_output"]["modules"] = parsedIn["modules"]
    /\ state["llm_parsed_output"]["objectives"] = parsedIn["objectives"]
    /\ {"activity", "available_modules", "curriculum_refs", "constructed_prompt",
        "prompt_template"} \subseteq DOMAIN state

\* str.format fails on the template of the state: a placeholder that is not
\* supplied, or a positional field
ConstructionFails(s) ==
    LET template == Get(s, "prompt_template", EmptyTemplate)
    IN  ~(template.placeholders \subseteq Supplied) \/ template.positional

\* the step of construct_prompt on a template that fails adds one error,
\* clears the pass flag and stores the empty prompt
ConstructPromptFailure ==
    (pc = "construct_prompt" /\ pc' # "construct_prompt" /\ ConstructionFails(state)) =>
        /\ Len(state'["validation_errors"]) = Len(Get(state, "validation_errors", <<>>)) + 1
        /\ SubSeq(state'["validation_errors"], 1, Len(Get(state, "validation_errors", <<>>)))
              = Get(state, "validation_errors", <<>>)
        /\ state'["validation_errors"][Len(state'["validation_errors"])].id
              \in {"template_key", "prompt_unexpected"}
        /\ state'["validation_passed"] = FALSE
        /\ state'["constructed_prompt"] = EmptyPrompt

\* C30: when prompt construction fails, construct_prompt records one error,
\* sets validation_passed to false and leaves the constructed prompt empty,
\* and from then on in that run the LLM is never invoked.
C30_FailedPromptNeverCallsLLM ==
    /\ [][ConstructPromptFailure]_vars
    /\ []((Ran("construct_prompt") /\ ConstructionFails(state)) =>
            /\ llmCalls = 0
            /\ clientCalls = <<>>
            /\ state["constructed_prompt"] = EmptyPrompt)

\* the run went through generate_llm after a failed construction and ended
\* without a call of the LLM
C30_Witness ==
    /\ pc = "END"
    /\ Ran("construct_prompt")
    /\ ConstructionFails(state)
    /\ Ran("generate_llm")
    /\ llmCalls = 0
    /\ state["final_response"].kind = "Error"

\* the curriculum block of the constructed prompt, and what it was built from
Block == state["constructed_prompt"].curriculum_refs
Majors == state["major_curriculum_refs"]
Refs == state["curriculum_refs"]

\* the references of the state that are linked to the section id, in order
RefsOf(id) == SelectSeq(Refs, LAMBDA r : r.major_reference_id = id)

\* the loaded sections that have a reference, in order
ShownMajors == SelectSeq(Majors, LAMBDA m : RefsOf(m.id) # <<>>)

\* positions of the section lines in the block, and the k-th of them
HeaderAt == {i \in 1..Len(Block) : Len(Block[i]) = 1}
Header(k) == CHOOSE i \in HeaderAt : Cardinality({j \in HeaderAt : j < i}) = k - 1

\* the lines between the section line at i and the next blank line (or the end)
LinesUnder(i) ==
    LET stop == IF \E j \in (i + 1)..Len(Block) : Block[j] = <<>>
                THEN CHOOSE j \in (i + 1)..Len(Block) :
                         Block[j] = <<>> /\ \A k \in (i + 1)..(j - 1) : Block[k] # <<>>
                ELSE Len(Block) + 1
    IN  SubSeq(Block, i + 1, stop - 1)

\* C34: the curriculum block holds one section per loaded major section that
\* has a reference, in the order the major sections were loaded: the text
\* of the section, then one line "<code> - <text>" per reference linked to
\* it, in loaded order.  A major section without a reference has no line,
\* and every loaded reference whose link names a loaded major section is on
\* exactly one line.
C34_CurriculumBlock ==
    Ran("construct_prompt") =>
        /\ Cardinality(HeaderAt) = Len(ShownMajors)
        /\ \A k \in 1..Len(ShownMajors) :
              /\ Block[Header(k)] = <<ShownMajors[k].full_text>>
              /\ LinesUnder(Header(k))
                    = [i \in 1..Len(RefsOf(ShownMajors[k].id)) |->
                          <<RefsOf(ShownMajors[k].id)[i].reference_code,
                            RefsOf(ShownMajors[k].id)[i].full_text>>]
        /\ \A i \in 1..Len(Majors) :
              RefsOf(Majors[i].id) = <<>> =>
                  \A j \in 1..Len(Block) : Block[j] # <<Majors[i].full_text>>
        /\ \A i \in 1..Len(Refs) :
              (\E m \in Range(Majors) : m.id = Refs[i].major_reference_id) =>
                  Cardinality({j \in 1..Len(Block) :
                                  Block[j] = <<Refs[i].reference_code, Refs[i].full_text>>}) = 1
        /\ Cardinality({j \in 1..Len(Block) : Len(Block[j]) = 2})
              = Cardinality({i \in 1..Len(Refs) :
                               \E m \in Range(Majors) : m.id = Refs[i].major_reference_id})

\* sections 3, 1, 2 were loaded in that order; section 3 has no reference,
\* the references of sections 2 and 1 are interleaved and one link is dangling
C34_Witness ==
    /\ Ran("construct_prompt")
    /\ Majors = <<MajorRef(3), MajorRef(1), MajorRef(2)>>
    /\ Refs = <<CurriculumRef(1, 2, 1), CurriculumRef(3, 1, 2), CurriculumRef(1, 1, 1)>>
    /\ Block = << <<MajorRef(1).full_text>>,
                  <<<<1, 2>>, <<"ref", 1, 2>>>>,
                  <<<<1, 1>>, <<"ref", 1, 1>>>>,
                  <<>>,
                  <<MajorRef(2).full_text>>,
                  <<<<3, 1>>, <<"ref", 3, 1>>>> >>

\* construct_prompt, generate_with_llm or parse_llm_response has failed in
\* this run: the template could not be formatted, the LLM step stored the
\* empty response (no prompt, or the client raised), or the response held no
\* JSON that could be parsed
PromptFailed == Ran("construct_prompt") /\ ConstructionFails(state)
GenerateFailed ==
    Ran("generate_llm") /\ Get(state, "llm_raw_response", EmptyRaw) = EmptyRaw
ParseFailed ==
    Ran("parse_response")
    /\ Get(state, "llm_raw_response", EmptyRaw).kind \notin {"json", "fenced"}

\* C35: once construct_prompt, generate_with_llm or parse_llm_response has
\* failed, the run never reaches format_success: validate_output fails and
\* routes to format_error, and the run ends at END after format_error.
C35_FailureNeverReachesSuccess ==
    (PromptFailed \/ GenerateFailed \/ ParseFailed) =>
        /\ pc \notin {"format_success", "raised"}
        /\ ~Ran("format_success")
        /\ Ran("validate_output") =>
              /\ state["validation_passed"] = FALSE
              /\ route = "error"
        /\ pc = "END" =>
              /\ executed[Len(executed)] = "format_error"
              /\ state["final_response"].kind = "Error"

\* the LLM answered with text that holds no JSON: the parse failed, the
\* earlier nodes did not, and the run ended after format_error
C35_Witness ==
    /\ pc = "END"
    /\ ParseFailed
    /\ ~PromptFailed
    /\ ~GenerateFailed
    /\ clientCalls = <<Returned(Raw("text", EmptyDict))>>
    /\ Ran("validate_output")
    /\ executed[Len(executed)] = "format_error"

\* an LLM output every item of which is valid when the context was loaded
ValidObject ==
    Obj(JList(<<"MATEMATYKA">>), JList(<<"4.15", "4.18">>),
        JList(<<GoodObjective, GoodObjective>>))

\* the run ended with a Success record
EndsWithSuccess ==
    /\ pc = "END"
    /\ HasResponse
    /\ state["final_response"].kind = "Success"

\* no run in which load_modules or load_curriculum_refs failed ends with a
\* Success record
NoSuccessWithoutContext ==
    (failed \cap {"load_modules", "load_curriculum_refs"} # {}) => ~EndsWithSuccess

\* C36: a run in which the modules loader or the curriculum loader failed
\* never ends with a Success record, whatever the LLM returns; a run in
\* which only the examples loader failed and the LLM returned a valid
\* output ends with a Success record.
C36_LoaderFailureAndSuccess ==
    /\ NoSuccessWithoutContext
    /\ (RunOver /\ failed = {"load_examples"}
                /\ clientCalls = <<Returned(Raw("json", ValidObject))>>)
          => EndsWithSuccess

-----------------------------------------------------------------------------
(* OpenRouterClient.generate: results and errors                            *)

\* the content is a JSON object, or text in which a JSON object is found
HoldsJsonObject(content) ==
    \/ content.kind = "json"
    \/ content.kind = "fenced" /\ Matches(content.obj)
    \/ content.kind = "think" /\ (Matches(content.draft) \/ Matches(content.obj))

\* generate of caller p has ended and gave a (text, usage) result
GenerateReturned(p) ==
    /\ req[p].pc = "parse_response"
    /\ req[p].state["llm_raw_response"] # EmptyRaw

\* generate of caller p has ended with the error text, and gave no result
GenerateRaised(p, text) ==
    /\ req[p].pc = "parse_response"
    /\ req[p].state["llm_raw_response"] = EmptyRaw
    /\ req[p].state["validation_errors"] = <<Err("llm_failed", 0, <<text>>)>>
    /\ "estimated_cost" \notin DOMAIN req[p].state
    /\ "input_tokens" \notin DOMAIN req[p].state

\* C31: generate returns a (text, usage) result only when the call of the
\* API succeeded with a content that is not null and is, or contains, a
\* JSON object; a timeout, a status error and a null content each end the
\* call with an error of their own and without any result.
C31_ResultOnlyFromJsonObject ==
    \A p \in procs :
        req[p].pc = "parse_response" =>
            LET api == env.api[req[p].request]
            IN  /\ GenerateReturned(p) =>
                       /\ ~api.raises
                       /\ api.content.kind # "none"
                       /\ HoldsJsonObject(api.content)
                /\ (api.raises /\ api.text = "Request timed out.") =>
                       GenerateRaised(p, "Request timed out.")
                /\ (api.raises /\ api.text = "Error code: 500") =>
                       GenerateRaised(p, "Error code: 500")
                /\ (~api.raises /\ api.content.kind = "none") =>
                       GenerateRaised(p, "Response content is None")

\* generate of caller p returned after its pricing request failed: the
\* endpoint gave an error, or a listing without the model
PricingFetchFailed(p) ==
    /\ GenerateReturned(p)
    /\ req[p].lookup \in {"error", "notfound"}

\* C32: whenever the pricing fetch fails (network error, or model not in
\* the listing), the estimated cost is computed from the fallback prices
\* configured in the settings.
C32_FallbackFromSettings ==
    \A p \in procs :
        PricingFetchFailed(p) =>
            req[p].state["estimated_cost"]
                = calculate_cost(req[p].tokens.input, req[p].tokens.output,
                                 ConfiguredFallbackPricing.prompt,
                                 ConfiguredFallbackPricing.completion)

-----------------------------------------------------------------------------
(* Reasoning content of the LLM output                                     *)

\* the answer of the API with its reasoning content taken out: the <think>
\* block before the JSON object, the "reasoning" key of the object, and
\* message.reasoning (the token counts go with the reasoning)
AnswerOf(api) ==
    IF api.raises THEN [raises |-> TRUE, text |-> api.text]
    ELSE [raises |-> FALSE,
          content |->
              CASE api.content.kind = "think" -> Raw("json", api.content.obj)
                [] api.content.kind = "json" ->
                       Raw("json", Restrict(api.content.obj,
                                            DOMAIN api.content.obj \ {"reasoning"}))
                [] OTHER -> api.content]

\* the outputs the API gave to the runs p and q differ in reasoning only
DifferInReasoningOnly(p, q) ==
    /\ req[p].request.activity = req[q].request.activity
    /\ req[p].request.theme = req[q].request.theme
    /\ AnswerOf(env.api[req[p].request]) = AnswerOf(env.api[req[q].request])

\* C33: reasoning text of the model is never surfaced: two runs whose LLM
\* outputs differ only in reasoning content end with identical terminal
\* results, and a Success record holds only activity, modules,
\* curriculum_refs and objectives.
C33_ReasoningNeverSurfaced ==
    \A p, q \in procs :
        (/\ req[p].pc = "done"
         /\ req[q].pc = "done"
         /\ DifferInReasoningOnly(p, q)) =>
            /\ req[p].response = req[q].response
            /\ req[p].response.kind = "Success" =>
                   DOMAIN req[p].response
                       = {"kind", "activity", "modules", "curriculum_refs", "objectives"}

-----------------------------------------------------------------------------
(* PricingCache with several models in use                                 *)

\* C37: fetch_pricing never returns a cached price for a model more than
\* ttl_seconds after the price of that model was fetched; fetching the
\* price of one model does not extend the validity of the entry of another.
C37_CachedPriceWithinTtl ==
    \A p \in procs :
        (req[p].pc = "returned" /\ req[p].how = "cached") =>
            req[p].age <= ttl_seconds

\* the request of caller p returns in this step without the price of the
\* model: the endpoint failed, or its listing lacks the model
FetchFails(p) ==
    /\ req[p].pc = "pricing_http"
    /\ req'[p].pc = "returned"
    /\ req'[p].how \in {"notfound", "error"}

\* caller p calls fetch_pricing in this step, for a model whose latest
\* request failed
CallAfterFailure(p) ==
    /\ req[p].pc \in {"idle", "returned"}
    /\ req'[p] # req[p]
    /\ req'[p].model \in pricing.unserved

FailedFetchFrame ==
    \A p \in procs :
        FetchFails(p) =>
            /\ pricing'.cache = pricing.cache
            /\ pricing'.cache_time = pricing.cache_time

RequestAfterFailure ==
    \A p \in procs : CallAfterFailure(p) => req'[p].pc = "pricing_http"

OneRequestInFlight ==
    Cardinality({p \in procs : req[p].pc = "pricing_http"}) <= 1

\* C38: a pricing fetch that fails, or that does not find the model, leaves
\* the cache entries and the cache timestamp unchanged, so every later
\* fetch_pricing call for that model issues a new upstream request until
\* one succeeds; and at no time are two upstream requests in flight.
C38_FailedFetchIsRetried ==
    /\ [][FailedFetchFrame]_vars
    /\ [][RequestAfterFailure]_vars
    /\ []OneRequestInFlight
====
